---- MODULE Spec2Model ----
(***************************************************************************)
(* A model of the in-memory key-value server: the typed command executor   *)
(* (CommandHandler and the per-command handlers), the time-to-live store,  *)
(* and the connection funnel of Redis::start / Redis::handle_connection.   *)
(*                                                                         *)
(* Two specifications share the executor:                                  *)
(*   SpecEngine  requests handed straight to Redis::handle_request, as the *)
(*               handler unit tests do, with the wall clock advancing;     *)
(*   Spec        the whole server: acceptor, connection tasks, the bounded *)
(*               request channel, the per-request reply channels.          *)
(***************************************************************************)
EXTENDS Integers, Sequences, FiniteSets, TLC

VARIABLES
    store,      \* Arc<RwLock<HashMap<BulkString, StoredData>>>: key -> Option<StoredData>
    now,        \* the reading SystemTime::now() gives, in milliseconds
    config,     \* CommandHandlerConfig, fixed at construction
    engine,     \* the task running Redis::start: "running", "failed" (accept error), "panicked"
    lastOp,     \* history: the request handle_request executed last, with its reply
    lastSet,    \* history: per key, the Set executed last on it
    queue,      \* the mpsc request channel: requests sent and not yet received
    pc,         \* per connection: where its handle_connection task stands
    held,       \* per connection: the request it decoded (Option)
    chan,       \* per connection: the oneshot reply channel of its request
    nreq,       \* per connection: how many requests it has decoded
    written,    \* per connection: the requests whose reply it wrote, in order
    enq,        \* history: how many requests entered the queue
    done,       \* history: per connection, how many of its requests were executed
    exec,       \* history: the stores the execution run last found and left
    log,        \* history: queue positions of the executed requests, in order
    reads,      \* history: per connection, its pipelined reads: how many, what the last held
    call,       \* the library call at work: the value given, its bytes, the result
    hs,         \* the replica's handshake: its step, what it wrote and was given
    rw          \* the map behind its RwLock and the threads inside the handlers

vars == <<store, now, config, engine, lastOp, lastSet,
          queue, pc, held, chan, nreq, written, enq, done, exec, log, reads,
          call, hs, rw>>

\* the state of the library parts, which the server's steps leave alone
libVars == <<call, hs, rw>>

engineVars == <<store, now, config, engine, lastOp, lastSet>>
serverVars == <<queue, pc, held, chan, nreq, written, enq, done, exec, log, reads>>

(***************************************************************************)
(* Bounds of the model.                                                    *)
(***************************************************************************)
MaxTime == 2            \* the clock runs over 0..MaxTime
MaxInstant == 2         \* the largest instant a SystemTime can hold
MaxExpiry == 1          \* PX arguments range over 0..MaxExpiry
MaxConns == 3           \* connections the acceptor may accept
MaxReqs == 3            \* requests decoded over all connections
\* mpsc::channel(128), src/redis.rs:91, scaled so that MaxConns tasks can fill it
ChannelCapacity == 2
MaxBulkLen == 2         \* the bulk strings given to the codec hold up to MaxBulkLen bytes
MaxArrayLen == 2        \* the arrays given to the codec hold up to MaxArrayLen values
MaxInt == 10            \* the integers given to the codec range over -MaxInt..MaxInt
MaxArgs == 5            \* the commands given to the parser have up to MaxArgs arguments
MaxThreads == 3         \* threads that call the handlers of one shared map
MaxFrames == 2          \* complete frames one read of a connection holds
MaxPipelined == 1       \* connections whose peer writes frames back to back

(***************************************************************************)
(* Option<T>: None is the empty tuple, Some(x) the one-element tuple.      *)
(***************************************************************************)
None == <<>>
Some(x) == <<x>>

(***************************************************************************)
(* Values of the wire model.  A value is a pair <<tag, payload>>; byte     *)
(* strings are sequences of byte codes.                                    *)
(***************************************************************************)
BulkString_new(bytes) == [bytes |-> Some(bytes)]
BulkString_null == [bytes |-> None]

Value_SimpleString(s) == <<"SimpleString", s>>
Value_BulkString(bs) == <<"BulkString", bs>>
Value_Array(vs) == <<"Array", Some(vs)>>

\* ASCII text the handlers write and the parsers compare with
Ascii ==
    [PONG |-> <<80, 79, 78, 71>>, OK |-> <<79, 75>>,
     role_slave |-> <<114, 111, 108, 101, 58, 115, 108, 97, 118, 101>>,
     role_master |-> <<114, 111, 108, 101, 58, 109, 97, 115, 116, 101, 114>>,
     master_replid |-> <<109, 97, 115, 116, 101, 114, 95, 114, 101, 112, 108, 105,
                         100, 58>>,
     master_repl_offset |-> <<109, 97, 115, 116, 101, 114, 95, 114, 101, 112, 108, 95,
                              111, 102, 102, 115, 101, 116, 58>>,
     newline |-> <<10>>,
     ping |-> <<112, 105, 110, 103>>, echo |-> <<101, 99, 104, 111>>,
     set |-> <<115, 101, 116>>, get |-> <<103, 101, 116>>,
     info |-> <<105, 110, 102, 111>>, px |-> <<112, 120>>,
     replconf |-> <<114, 101, 112, 108, 99, 111, 110, 102>>,
     replication |-> <<114, 101, 112, 108, 105, 99, 97, 116, 105, 111, 110>>,
     listening_port |-> <<108, 105, 115, 116, 101, 110, 105, 110, 103, 45,
                          112, 111, 114, 116>>,
     capa |-> <<99, 97, 112, 97>>, psync2 |-> <<112, 115, 121, 110, 99, 50>>]

\* u64::to_string: the decimal digits of n as bytes
RECURSIVE to_string(_)
to_string(n) ==
    IF n < 10 THEN <<48 + n>> ELSE to_string(n \div 10) \o <<48 + (n % 10)>>

(***************************************************************************)
(* The codec of redis/resp.rs.  A Result is Ok(x) or Err(e); a buffer is a *)
(* sequence of bytes, all of them ASCII in this model.                     *)
(***************************************************************************)
Ok(x) == <<"Ok", x>>
Err(e) == <<"Err", e>>
is_ok(r) == r[1] = "Ok"

Value_SimpleError(s) == <<"SimpleError", s>>
Value_Integer(i) == <<"Integer", i>>
Array_null == <<"Array", None>>

CRLF == <<13, 10>>
\* the starting byte of each type
Token == [Star |-> 42, Dollar |-> 36, Plus |-> 43, Minus |-> 45, Colon |-> 58]

\* the rest of a buffer after its first n bytes: &buf[n..]
skip(buf, n) == SubSeq(buf, n + 1, Len(buf))

\* Display of an i64
i64_to_string(i) == IF i < 0 THEN <<45>> \o to_string(0 - i) ELSE to_string(i)

BulkString_encode(bs) ==
    IF bs.bytes = None
    THEN <<Token.Dollar, 45, 49>> \o CRLF
    ELSE <<Token.Dollar>> \o to_string(Len(bs.bytes[1])) \o CRLF \o bs.bytes[1] \o CRLF

RECURSIVE Value_encode(_)
RECURSIVE encode_each(_)
\* the loop of Array::_encode over the values
encode_each(vs) ==
    IF vs = <<>> THEN <<>> ELSE Value_encode(Head(vs)) \o encode_each(Tail(vs))

Array_encode(values) ==
    IF values = None
    THEN <<Token.Star, 45, 49>> \o CRLF
    ELSE <<Token.Star>> \o to_string(Len(values[1])) \o CRLF \o encode_each(values[1])

Value_encode(v) ==
    CASE v[1] = "SimpleString" -> <<Token.Plus>> \o v[2] \o CRLF
      [] v[1] = "SimpleError" -> <<Token.Minus>> \o v[2] \o CRLF
      [] v[1] = "Integer" -> <<Token.Colon>> \o i64_to_string(v[2]) \o CRLF
      [] v[1] = "BulkString" -> BulkString_encode(v[2])
      [] v[1] = "Array" -> Array_encode(v[2])

\* the bytes before the first CR LF, and the count of bytes up to its end
read_until_crlf(buffer) ==
    LET J == {j \in 2..Len(buffer) : buffer[j - 1] = 13 /\ buffer[j] = 10} IN
    IF J = {} THEN None
    ELSE LET j == CHOOSE k \in J : \A m \in J : k <= m IN
         Some(<<SubSeq(buffer, 1, j - 2), j>>)

\* String::from_utf8 on ASCII bytes
from_utf8(b) == IF \A i \in 1..Len(b) : b[i] < 128 THEN Ok(b) ELSE Err("FromUtf8")

decode_to_string(bytes) ==
    LET string(r, s) == IF is_ok(s) THEN Ok(<<s[2], r[1][2]>>) ELSE s
        line(r) == IF r = None THEN Err("InvalidFormat")
                   ELSE string(r, from_utf8(skip(r[1][1], 1)))
    IN  line(read_until_crlf(bytes))

RECURSIVE from_digits(_)
from_digits(s) ==
    IF s = <<>> THEN 0 ELSE 10 * from_digits(SubSeq(s, 1, Len(s) - 1)) + (s[Len(s)] - 48)

\* str::parse::<i64>: an optional sign, then one digit or more
parse_i64(s) ==
    LET signed == s # <<>> /\ s[1] \in {43, 45}
        digits == IF signed THEN Tail(s) ELSE s
    IN  IF digits = <<>> \/ \E i \in 1..Len(digits) : digits[i] \notin 48..57
        THEN Err("ParseInt")
        ELSE Ok(IF signed /\ s[1] = 45 THEN 0 - from_digits(digits) ELSE from_digits(digits))

decode_to_i64(bytes) ==
    LET number(r, i) == IF is_ok(i) THEN Ok(<<i[2], r[2][2]>>) ELSE i
        string(r) == IF ~is_ok(r) THEN r ELSE number(r, parse_i64(r[2][1]))
    IN  string(decode_to_string(bytes))

\* a decoder that takes the data found whatever length was declared
BulkString_decode_unchecked_len(buf) ==
    LET data(n, r) ==
            IF r = None THEN Err("InvalidFormat")
            ELSE Ok(<<BulkString_new(r[1][1]), n[2][2] + r[1][2]>>)
        length(n) ==
            IF ~is_ok(n) THEN n
            ELSE IF n[2][1] < 0 THEN Ok(<<BulkString_null, n[2][2]>>)
            ELSE data(n, read_until_crlf(skip(buf, n[2][2])))
    IN  length(decode_to_i64(buf))

BulkString_decode(buf) ==
    LET data(n, r) ==
            IF r = None THEN Err("InvalidFormat")
            ELSE IF Len(r[1][1]) # n[2][1] THEN Err("LenMismatch")
            ELSE Ok(<<BulkString_new(r[1][1]), n[2][2] + r[1][2]>>)
        length(n) ==
            IF ~is_ok(n) THEN n
            ELSE IF n[2][1] < 0 THEN Ok(<<BulkString_null, n[2][2]>>)
            ELSE data(n, read_until_crlf(skip(buf, n[2][2])))
    IN  length(decode_to_i64(buf))

RECURSIVE Value_decode_with_len(_)
RECURSIVE decode_values(_, _, _, _)
\* the loop of Array::_decode: left values to go, from the bytes consumed
decode_values(buf, left, values, bytes_consumed) ==
    LET value(r) ==
            IF ~is_ok(r) THEN r
            ELSE decode_values(buf, left - 1, Append(values, r[2][1]),
                               bytes_consumed + r[2][2])
    IN  IF left = 0 THEN Ok(<<Value_Array(values), bytes_consumed>>)
        ELSE value(Value_decode_with_len(skip(buf, bytes_consumed)))

Array_decode(buf) ==
    LET length(n) ==
            IF ~is_ok(n) THEN n
            ELSE IF n[2][1] < 0 THEN Ok(<<Array_null, n[2][2]>>)
            ELSE decode_values(buf, n[2][1], <<>>, n[2][2])
    IN  length(decode_to_i64(buf))

Value_decode_with_len(buf) ==
    LET simple_string(r) == IF is_ok(r) THEN Ok(<<Value_SimpleString(r[2][1]), r[2][2]>>) ELSE r
        simple_error(r) == IF is_ok(r) THEN Ok(<<Value_SimpleError(r[2][1]), r[2][2]>>) ELSE r
        integer(r) == IF is_ok(r) THEN Ok(<<Value_Integer(r[2][1]), r[2][2]>>) ELSE r
        bulk_string(r) == IF is_ok(r) THEN Ok(<<Value_BulkString(r[2][1]), r[2][2]>>) ELSE r
    IN  IF Len(buf) = 0 THEN Err("EmptyBytes")
        ELSE CASE buf[1] = Token.Plus -> simple_string(decode_to_string(buf))
               [] buf[1] = Token.Minus -> simple_error(decode_to_string(buf))
               [] buf[1] = Token.Colon -> integer(decode_to_i64(buf))
               [] buf[1] = Token.Dollar -> bulk_string(BulkString_decode(buf))
               [] buf[1] = Token.Star -> Array_decode(buf)
               [] OTHER -> Err("UnknownType")

Value_decode(buf) ==
    LET value(r) == IF is_ok(r) THEN Ok(r[2][1]) ELSE r
    IN  value(Value_decode_with_len(buf))

(***************************************************************************)
(* The codec of resp.rs, the module main.rs serves with.  Its BulkString   *)
(* and Array carry an is_null flag next to their content.                  *)
(***************************************************************************)
resp_BulkString_from(bytes) == [is_null |-> FALSE, bytes |-> bytes]
resp_BulkString_null == [is_null |-> TRUE, bytes |-> <<>>]
resp_Array_from(values) == [is_null |-> FALSE, values |-> values]
resp_Array_null == [is_null |-> TRUE, values |-> <<>>]

resp_BulkString_serialize(bs) ==
    <<Token.Dollar>> \o to_string(Len(bs.bytes)) \o CRLF \o bs.bytes \o CRLF

RECURSIVE resp_Value_serialize(_)
RECURSIVE resp_serialize_each(_)
\* the loop of Array::serialize over the values
resp_serialize_each(vs) ==
    IF vs = <<>> THEN <<>>
    ELSE resp_Value_serialize(Head(vs)) \o resp_serialize_each(Tail(vs))

resp_Array_serialize(arr) ==
    <<Token.Star>> \o to_string(Len(arr.values)) \o CRLF \o resp_serialize_each(arr.values)

resp_Value_serialize(v) ==
    CASE v[1] = "SimpleString" -> <<Token.Plus>> \o v[2] \o CRLF
      [] v[1] = "SimpleError" -> <<Token.Minus>> \o v[2] \o CRLF
      [] v[1] = "Integer" -> <<Token.Colon>> \o i64_to_string(v[2]) \o CRLF
      [] v[1] = "BulkString" -> resp_BulkString_serialize(v[2])
      [] v[1] = "Array" -> resp_Array_serialize(v[2])

resp_decode_to_string(bytes) ==
    LET string(r, s) == IF is_ok(s) THEN Some(<<s[2], r[1][2]>>) ELSE None
        line(r) == IF r = None THEN None ELSE string(r, from_utf8(skip(r[1][1], 1)))
    IN  line(read_until_crlf(bytes))

resp_decode_integer(bytes) ==
    LET number(r, i) == IF is_ok(i) THEN Ok(<<i[2], r[1][2]>>) ELSE i
        string(r) == IF r = None THEN Err("InvalidIntegerFormat")
                     ELSE number(r, parse_i64(r[1][1]))
    IN  string(resp_decode_to_string(bytes))

resp_decode_bulk_string(bytes) ==
    LET data(n, r) ==
            IF r = None THEN Err("InvalidBulkFormat")
            ELSE IF Len(r[1][1]) # n[2][1] THEN Err("BulkLenMismatch")
            ELSE Ok(<<resp_BulkString_from(r[1][1]), n[2][2] + r[1][2]>>)
        length(n) ==
            IF ~is_ok(n) THEN Err("InvalidBulkFormat")
            ELSE IF n[2][1] < 0 THEN Ok(<<resp_BulkString_null, n[2][2]>>)
            ELSE data(n, read_until_crlf(skip(bytes, n[2][2])))
    IN  length(resp_decode_integer(bytes))

RECURSIVE resp_decode_with_len(_)
RECURSIVE resp_decode_values(_, _, _, _)
\* the loop of Decoder::decode_array
resp_decode_values(bytes, left, values, bytes_consumed) ==
    LET value(r) ==
            IF ~is_ok(r) THEN r
            ELSE resp_decode_values(bytes, left - 1, Append(values, r[2][1]),
                                    bytes_consumed + r[2][2])
    IN  IF left = 0 THEN Ok(<<(<<"Array", resp_Array_from(values)>>), bytes_consumed>>)
        ELSE value(resp_decode_with_len(skip(bytes, bytes_consumed)))

resp_decode_array(bytes) ==
    LET length(n) ==
            IF ~is_ok(n) THEN Err("InvalidArrayFormat")
            ELSE IF n[2][1] < 0 THEN Ok(<<(<<"Array", resp_Array_null>>), n[2][2]>>)
            ELSE resp_decode_values(bytes, n[2][1], <<>>, n[2][2])
    IN  length(resp_decode_integer(bytes))

resp_decode_with_len(bytes) ==
    LET simple_string(r) == IF r = None THEN Err("InvalidSimpleFormat")
                            ELSE Ok(<<Value_SimpleString(r[1][1]), r[1][2]>>)
        simple_error(r) == IF r = None THEN Err("InvalidSimpleFormat")
                           ELSE Ok(<<Value_SimpleError(r[1][1]), r[1][2]>>)
        integer(r) == IF is_ok(r) THEN Ok(<<Value_Integer(r[2][1]), r[2][2]>>) ELSE r
        bulk_string(r) == IF is_ok(r) THEN Ok(<<(<<"BulkString", r[2][1]>>), r[2][2]>>) ELSE r
    IN  IF Len(bytes) = 0 THEN Err("EmptyBytes")
        ELSE CASE bytes[1] = Token.Plus -> simple_string(resp_decode_to_string(bytes))
               [] bytes[1] = Token.Minus -> simple_error(resp_decode_to_string(bytes))
               [] bytes[1] = Token.Colon -> integer(resp_decode_integer(bytes))
               [] bytes[1] = Token.Dollar -> bulk_string(resp_decode_bulk_string(bytes))
               [] bytes[1] = Token.Star -> resp_decode_array(bytes)
               [] OTHER -> Err("UnknownType")

resp_Decoder_decode(bytes) ==
    LET value(r) == IF is_ok(r) THEN Ok(r[2][1]) ELSE r
    IN  value(resp_decode_with_len(bytes))

(***************************************************************************)
(* The input domains.                                                      *)
(***************************************************************************)
KeyK == BulkString_new(<<107>>)
KeyJ == BulkString_new(<<106>>)
Keys == {KeyK, KeyJ}
StoredValues == {BulkString_new(<<97>>), BulkString_new(<<98>>), BulkString_null}
Messages == {BulkString_new(<<104, 105>>)}
Expiries == {None} \cup {Some(e) : e \in 0..MaxExpiry}

\* the arguments of the Sets: every value and expiry on one key, and a plain
\* Set on a second key
SetArgs ==
    {[key |-> KeyK, value |-> v, expiry |-> e] : v \in StoredValues, e \in Expiries}
    \cup {[key |-> KeyJ, value |-> BulkString_new(<<97>>), expiry |-> None]}

Cmd_Ping(msg) == <<"Ping", [msg |-> msg]>>
Cmd_Echo(msg) == <<"Echo", [msg |-> msg]>>
Cmd_Set(key, value, expiry) == <<"Set", [key |-> key, value |-> value, expiry |-> expiry]>>
Cmd_Get(key) == <<"Get", [key |-> key]>>
Cmd_Info(section) == <<"Info", [section |-> section]>>

\* every Command the parser can hand to the executor, over the input domains
Commands ==
    {Cmd_Ping(None)} \cup {Cmd_Ping(Some(m)) : m \in Messages}
    \cup {Cmd_Echo(m) : m \in Messages}
    \cup {Cmd_Set(a.key, a.value, a.expiry) : a \in SetArgs}
    \cup {Cmd_Get(k) : k \in Keys}
    \cup {Cmd_Info(s) : s \in {"Default", "Replication"}}

\* the values given to the codec: bulk strings of any bytes, carriage return
\* and line feed among them, texts without either, integers of one and two
\* digits with and without sign, arrays empty, null, flat and nested
CodecValues ==
    LET Texts == {<<>>, <<97>>, Ascii.OK, Ascii.PONG}
        ByteStrings == UNION {[1..n -> {13, 10, 97}] : n \in 0..MaxBulkLen}
        Elements ==
            {Value_Integer(1), Value_SimpleString(Ascii.OK),
             Value_BulkString(BulkString_new(<<97>>)), Value_BulkString(BulkString_null),
             Value_Array(<<>>), Array_null,
             Value_Array(<<Value_BulkString(BulkString_new(<<97>>)), Value_Integer(0 - 1)>>)}
    IN  {Value_SimpleString(t) : t \in Texts}
        \cup {Value_SimpleError(t) : t \in Texts}
        \cup {Value_Integer(i) : i \in (0 - MaxInt)..MaxInt}
        \cup {Value_BulkString(BulkString_new(b)) : b \in ByteStrings}
        \cup {Value_BulkString(BulkString_null), Array_null}
        \cup {Value_Array(vs) : vs \in UNION {[1..n -> Elements] : n \in 0..MaxArrayLen}}

\* the same value as resp.rs holds it
RECURSIVE resp_Value(_)
resp_Value(v) ==
    CASE v[1] = "BulkString" ->
            <<"BulkString", IF v[2].bytes = None THEN resp_BulkString_null
                            ELSE resp_BulkString_from(v[2].bytes[1])>>
      [] v[1] = "Array" ->
            <<"Array", IF v[2] = None THEN resp_Array_null
                       ELSE resp_Array_from([i \in 1..Len(v[2][1]) |-> resp_Value(v[2][1][i])])>>
      [] OTHER -> v

(***************************************************************************)
(* The command parser of redis/cmd.rs and redis/cmd/*.rs.  An iterator is  *)
(* the sequence of the values it has yet to give.                          *)
(***************************************************************************)
\* a comparison of names that tells capitals from small letters
to_lowercase_unchanged(s) == s

\* str::to_lowercase on ASCII text
to_lowercase(s) == [i \in 1..Len(s) |-> IF s[i] \in 65..90 THEN s[i] + 32 ELSE s[i]]

BulkString_as_str(bs) ==
    IF bs.bytes = None THEN None
    ELSE IF is_ok(from_utf8(bs.bytes[1])) THEN Some(bs.bytes[1]) ELSE None

bulk_string_to_string(bs) ==
    LET string(s) == IF s = None THEN Err(<<"InvalidArgument", <<"BulkString", bs>>>>)
                     ELSE Ok(s[1])
    IN  string(BulkString_as_str(bs))

\* str::parse::<u64>: no minus sign; the numbers read here all fit 64 bits
parse_u64(s) == IF s # <<>> /\ s[1] = 45 THEN Err("ParseInt") ELSE parse_i64(s)

\* a port read without the limit of 16 bits
parse_u16_unbounded(s) == parse_u64(s)

\* str::parse::<u16>
parse_u16(s) ==
    LET number(n) == IF is_ok(n) /\ n[2] > 65535 THEN Err("ParseInt") ELSE n
    IN  number(parse_u64(s))

bulk_string_to_uint64(bs) ==
    LET number(n) == IF is_ok(n) THEN n ELSE Err(<<"Decode", n[2]>>)
        string(s) == IF is_ok(s) THEN number(parse_u64(s[2])) ELSE s
    IN  string(bulk_string_to_string(bs))

\* the error made without the value that caused it
value_to_bulk_string_losing_value(val) ==
    IF val[1] = "BulkString" THEN Ok(val[2])
    ELSE Err(<<"InvalidArgument", Value_BulkString(BulkString_null)>>)

value_to_bulk_string(val) ==
    IF val[1] = "BulkString" THEN Ok(val[2]) ELSE Err(<<"InvalidArgument", val>>)

\* one loop of consume_args_from_iter: count calls of iter.next(), each value
\* given turned into a bulk string; an exhausted iterator fails the loop over
\* the necessary arguments only
RECURSIVE take_args(_, _, _, _)
take_args(iter, count, necessary, args) ==
    LET taken(bs) ==
            IF ~is_ok(bs) THEN bs
            ELSE take_args(Tail(iter), count - 1, necessary, Append(args, bs[2]))
    IN  IF count = 0 THEN Ok(<<args, iter>>)
        ELSE IF iter = <<>>
             THEN IF necessary THEN Err(<<"WrongNumArgs">>)
                  ELSE take_args(iter, count - 1, necessary, args)
        ELSE taken(value_to_bulk_string(Head(iter)))

\* a parser that lets tokens past the declared arguments go unread
consume_args_from_iter_ignoring_rest(iter, necessary, optional) ==
    LET optionals(o) == IF ~is_ok(o) THEN o ELSE Ok(o[2][1])
        necessaries(n) == IF ~is_ok(n) THEN n
                          ELSE optionals(take_args(n[2][2], optional, FALSE, n[2][1]))
    IN  necessaries(take_args(iter, necessary, TRUE, <<>>))

consume_args_from_iter(iter, necessary, optional) ==
    LET optionals(o) == IF ~is_ok(o) THEN o
                        ELSE IF o[2][2] # <<>> THEN Err(<<"WrongNumArgs">>) ELSE Ok(o[2][1])
        necessaries(n) == IF ~is_ok(n) THEN n
                          ELSE optionals(take_args(n[2][2], optional, FALSE, n[2][1]))
    IN  necessaries(take_args(iter, necessary, TRUE, <<>>))

PingArg_parse(iter) ==
    LET parsed(args) ==
            IF ~is_ok(args) THEN args
            ELSE Ok([msg |-> IF Len(args[2]) >= 1 THEN Some(args[2][1]) ELSE None])
    IN  parsed(consume_args_from_iter(iter, 0, 1))

EchoArg_parse(iter) ==
    LET parsed(args) == IF ~is_ok(args) THEN args ELSE Ok([msg |-> args[2][1]])
    IN  parsed(consume_args_from_iter(iter, 1, 0))

\* an Info that knows the section name in small letters only
InfoArg_parse_section_exact(iter) ==
    LET parse_info_section(section_str) ==
            IF ~is_ok(section_str) THEN section_str
            ELSE Ok([section |-> IF section_str[2] = Ascii.replication
                                 THEN "Replication" ELSE "Default"])
        parsed(args) ==
            IF ~is_ok(args) THEN args
            ELSE parse_info_section(IF Len(args[2]) >= 1
                                    THEN bulk_string_to_string(args[2][1])
                                    ELSE Ok(<<>>))
    IN  parsed(consume_args_from_iter(iter, 0, 1))

InfoArg_parse(iter) ==
    LET parse_info_section(section_str) ==
            IF ~is_ok(section_str) THEN section_str
            ELSE Ok([section |-> IF to_lowercase(section_str[2]) = Ascii.replication
                                 THEN "Replication" ELSE "Default"])
        parsed(args) ==
            IF ~is_ok(args) THEN args
            ELSE parse_info_section(IF Len(args[2]) >= 1
                                    THEN bulk_string_to_string(args[2][1])
                                    ELSE Ok(<<>>))
    IN  parsed(consume_args_from_iter(iter, 0, 1))

SetArg_parse(iter) ==
    LET millis(args, ms) ==
            IF ~is_ok(ms) THEN ms
            ELSE Ok([key |-> args[2][1], value |-> args[2][2], expiry |-> Some(ms[2])])
        option(args, opt) ==
            IF ~is_ok(opt) THEN opt
            ELSE IF to_lowercase(opt[2]) # Ascii.px
                 THEN Err(<<"InvalidArgument", <<"BulkString", args[2][3]>>>>)
            ELSE IF Len(args[2]) < 4 THEN Err(<<"WrongNumArgs">>)
            ELSE millis(args, bulk_string_to_uint64(args[2][4]))
        parsed(args) ==
            IF ~is_ok(args) THEN args
            ELSE IF Len(args[2]) < 3
                 THEN Ok([key |-> args[2][1], value |-> args[2][2], expiry |-> None])
            ELSE option(args, bulk_string_to_string(args[2][3]))
    IN  parsed(consume_args_from_iter(iter, 2, 2))

GetArg_parse(iter) ==
    LET parsed(args) == IF ~is_ok(args) THEN args ELSE Ok([key |-> args[2][1]])
    IN  parsed(consume_args_from_iter(iter, 1, 0))

ReplConfArg_parse_arg(iter) ==
    LET port(second, n) ==
            IF is_ok(n) THEN Ok([config |-> <<"ListeningPort", n[2]>>])
            ELSE Err(<<"InvalidArgument", <<"BulkString", second>>>>)
        setting(first, second, key, value) ==
            IF ~is_ok(key) THEN key
            ELSE IF ~is_ok(value) THEN value
            ELSE IF to_lowercase(key[2]) = Ascii.listening_port THEN port(second, parse_u16(value[2]))
            ELSE IF to_lowercase(key[2]) = Ascii.capa
                 THEN Ok([config |-> <<"Capabilities", value[2]>>])
            ELSE Err(<<"InvalidArgument", <<"BulkString", first>>>>)
        parsed(args) ==
            IF ~is_ok(args) THEN args
            ELSE setting(args[2][1], args[2][2], bulk_string_to_string(args[2][1]),
                         bulk_string_to_string(args[2][2]))
    IN  parsed(consume_args_from_iter(iter, 2, 0))

\* the result of an argument parser made into the command of the given name
as_command(name, arg) == IF is_ok(arg) THEN Ok(<<name, arg[2]>>) ELSE arg

\* the errors of reading the name passed on as they are
Command_get_command_str_from_iter_unmapped(iter) ==
    LET bulk(bs) == IF is_ok(bs) THEN bulk_string_to_string(bs[2]) ELSE bs
    IN  IF iter = <<>> THEN Err(<<"InvalidCommand">>)
        ELSE bulk(value_to_bulk_string(Head(iter)))

Command_get_command_str_from_iter(iter) ==
    LET string(s) == IF s = None THEN Err(<<"InvalidCommand">>) ELSE Ok(s[1])
    IN  IF iter = <<>> THEN Err(<<"InvalidCommand">>)
        ELSE IF Head(iter)[1] # "BulkString" THEN Err(<<"InvalidCommand">>)
        ELSE string(BulkString_as_str(Head(iter)[2]))

Command_try_from(value) ==
    IF value[1] # "Array" THEN Err(<<"InvalidCommand">>)
    ELSE IF value[2] = None THEN Err(<<"InvalidCommand">>)
    ELSE LET command(cmd, iter) ==
                 IF ~is_ok(cmd) THEN cmd
                 ELSE CASE to_lowercase(cmd[2]) = Ascii.ping ->
                               as_command("Ping", PingArg_parse(iter))
                        [] to_lowercase(cmd[2]) = Ascii.echo ->
                               as_command("Echo", EchoArg_parse(iter))
                        [] to_lowercase(cmd[2]) = Ascii.set ->
                               as_command("Set", SetArg_parse(iter))
                        [] to_lowercase(cmd[2]) = Ascii.get ->
                               as_command("Get", GetArg_parse(iter))
                        [] to_lowercase(cmd[2]) = Ascii.info ->
                               as_command("Info", InfoArg_parse(iter))
                        [] OTHER -> Err(<<"InvalidCommand">>)
         IN  command(Command_get_command_str_from_iter(value[2][1]), Tail(value[2][1]))

(***************************************************************************)
(* The clients a replica talks to its master with.                         *)
(***************************************************************************)
\* Ping::command_value
Ping_command_value(arg) ==
    Value_Array(<<Value_BulkString(BulkString_new(<<80, 73, 78, 71>>))>>
                \o (IF arg.msg # None THEN <<Value_BulkString(arg.msg[1])>> ELSE <<>>))

\* a REPLCONF that names the configuration and leaves its value out
ReplConf_command_value_without_value(arg) ==
    Value_Array(<<Value_BulkString(BulkString_new(<<82, 69, 80, 76, 67, 79, 78, 70>>)),
                  Value_BulkString(BulkString_new(
                      IF arg.config[1] = "ListeningPort" THEN Ascii.listening_port
                      ELSE Ascii.capa))>>)

\* ReplConf::command_value, with ReplConfArgConfig::to_bulk_strings
ReplConf_command_value(arg) ==
    LET to_bulk_strings ==
            IF arg.config[1] = "ListeningPort"
            THEN <<BulkString_new(Ascii.listening_port),
                   BulkString_new(to_string(arg.config[2]))>>
            ELSE <<BulkString_new(Ascii.capa), BulkString_new(arg.config[2])>>
    IN  Value_Array(<<Value_BulkString(BulkString_new(<<82, 69, 80, 76, 67, 79, 78, 70>>))>>
                    \o [i \in 1..2 |-> Value_BulkString(to_bulk_strings[i])])

\* Session::send_request_and_wait_reply once the request is written: what
\* the read of the stream gave is an error, no byte, or bytes to decode
Session_send_request_and_wait_reply(read) ==
    LET decoded(r) == IF is_ok(r) THEN r ELSE Err(<<"Decode", r[2]>>)
    IN  IF read.kind = "error" THEN Err(<<"TokioIo">>)
        ELSE IF read.wire = <<>> THEN Err(<<"NoResponse">>)
        ELSE decoded(Value_decode(read.wire))

\* PingClient::ping on the responder's answer
PingClient_ping(arg, response) ==
    IF ~is_ok(response) THEN Err(<<"Session">> \o response[2])
    ELSE IF arg.msg # None
         THEN IF response[2] # Value_Array(<<Value_BulkString(BulkString_new(Ascii.PONG)),
                                             Value_BulkString(arg.msg[1])>>)
              THEN Err(<<"InvalidResponse">>) ELSE response
    ELSE IF response[2] # Value_SimpleString(Ascii.PONG)
         THEN Err(<<"InvalidResponse">>) ELSE response

\* an Echo client content with any bulk string for an answer
EchoClient_echo_any_bulk_string(arg, response) ==
    IF arg.msg.bytes = None THEN Err(<<"InvalidArg">>)
    ELSE IF ~is_ok(response) THEN Err(<<"Session">> \o response[2])
    ELSE IF response[2][1] # "BulkString" THEN Err(<<"InvalidResponse">>)
    ELSE response

\* EchoClient::echo on the responder's answer; a message that is null is
\* refused before anything is sent
EchoClient_echo(arg, response) ==
    IF arg.msg.bytes = None THEN Err(<<"InvalidArg">>)
    ELSE IF ~is_ok(response) THEN Err(<<"Session">> \o response[2])
    ELSE IF response[2] # Value_BulkString(BulkString_new(arg.msg.bytes[1]))
         THEN Err(<<"InvalidResponse">>)
    ELSE response

\* a client that takes any answer of the responder for the expected one
ReplConfClient_replconf_any_response(arg, response) ==
    IF ~is_ok(response) THEN Err(<<"Session">> \o response[2]) ELSE response

\* ReplConfClient::replconf on the responder's answer
ReplConfClient_replconf(arg, response) ==
    IF ~is_ok(response) THEN Err(<<"Session">> \o response[2])
    ELSE IF response[2] # Value_SimpleString(Ascii.OK)
         THEN Err(<<"InvalidResponse">>) ELSE response

\* CommandHandlerConfig values a process can be built with
Configs ==
    {[is_replica |-> TRUE, master_repl_id_and_offset |-> None],
     [is_replica |-> FALSE, master_repl_id_and_offset |-> None],
     [is_replica |-> FALSE, master_repl_id_and_offset |-> Some(<<(<<120, 121>>), 10>>)]}

(***************************************************************************)
(* The store and the command handlers.  A handler yields the map it leaves *)
(* and the reply Value; panic marks a handler that unwound instead.        *)
(***************************************************************************)
Done(map, reply) == [panic |-> FALSE, map |-> map, reply |-> reply]
Panicked(map) == [panic |-> TRUE, map |-> map, reply |-> <<"Panic", None>>]

\* an addition that stops at the last instant there is
checked_add_saturating(t, d) == Some(IF t + d <= MaxInstant THEN t + d ELSE MaxInstant)

\* SystemTime::checked_add: None when the sum is not representable
checked_add(t, d) == IF t + d <= MaxInstant THEN Some(t + d) ELSE None

\* a has_expired that takes an entry without a deadline for an expired one
has_expired_without_deadline(data, t) ==
    data.deadline = None \/ t > data.deadline[1]

\* a has_expired that takes the deadline itself for an instant past it
has_expired_at_deadline(data, t) ==
    data.deadline # None /\ t >= data.deadline[1]

\* StoredData::has_expired, with t the reading of SystemTime::now()
has_expired(data, t) ==
    data.deadline # None /\ t > data.deadline[1]

\* a Ping that answers PONG whatever it was given
PingHandler_handle_ignoring_message(arg) == Value_SimpleString(Ascii.PONG)

PingHandler_handle(arg) ==
    IF arg.msg # None
    THEN Value_Array(<<Value_BulkString(BulkString_new(Ascii.PONG)),
                       Value_BulkString(arg.msg[1])>>)
    ELSE Value_SimpleString(Ascii.PONG)

EchoHandler_handle(arg) == Value_BulkString(arg.msg)

\* lines put one after the other with nothing between them
RECURSIVE join_without_separator(_)
join_without_separator(lines) ==
    IF Len(lines) = 0 THEN <<>> ELSE lines[1] \o join_without_separator(Tail(lines))

\* Vec<String>::join("\n")
RECURSIVE join(_)
join(lines) ==
    IF Len(lines) = 0 THEN <<>>
    ELSE IF Len(lines) = 1 THEN lines[1]
    ELSE lines[1] \o Ascii.newline \o join(Tail(lines))

InfoHandler_handle_replication(cfg) ==
    IF cfg.is_replica
    THEN Value_BulkString(BulkString_new(Ascii.role_slave))
    ELSE LET m == cfg.master_repl_id_and_offset
             info == <<Ascii.role_master>> \o
                     (IF m # None
                      THEN <<Ascii.master_replid \o m[1][1],
                             Ascii.master_repl_offset \o to_string(m[1][2])>>
                      ELSE <<>>)
         IN Value_BulkString(BulkString_new(join(info)))

\* InfoSection::Default is todo!(): the handler panics
InfoHandler_handle(map, cfg, arg) ==
    IF arg.section = "Replication"
    THEN Done(map, InfoHandler_handle_replication(cfg))
    ELSE Panicked(map)

\* a Set that keeps the deadline of the entry it overwrites when it carries
\* no expiry of its own
SetHandler_handle_keeps_deadline(map, arg, t) ==
    LET deadline == IF arg.expiry # None THEN checked_add(t, arg.expiry[1])
                    ELSE IF map[arg.key] # None THEN map[arg.key][1].deadline
                    ELSE None
        data == [value |-> arg.value, deadline |-> deadline]
    IN Done([map EXCEPT ![arg.key] = Some(data)], Value_SimpleString(Ascii.OK))

\* a Set that leaves its own entry as the only one of the map
SetHandler_handle_replacing_map(map, arg, t) ==
    LET deadline == IF arg.expiry # None THEN checked_add(t, arg.expiry[1]) ELSE None
        data == [value |-> arg.value, deadline |-> deadline]
    IN Done([k \in Keys |-> IF k = arg.key THEN Some(data) ELSE None],
            Value_SimpleString(Ascii.OK))

\* t is the reading of SystemTime::now() taken for the deadline
SetHandler_handle(map, arg, t) ==
    LET deadline == IF arg.expiry # None THEN checked_add(t, arg.expiry[1]) ELSE None
        data == [value |-> arg.value, deadline |-> deadline]
    IN Done([map EXCEPT ![arg.key] = Some(data)], Value_SimpleString(Ascii.OK))

\* a Get that answers the empty bulk string for a key without entry
GetHandler_handle_absent_as_empty(map, arg, t1, t2) ==
    IF map[arg.key] = None
    THEN Done(map, Value_BulkString(BulkString_new(<<>>)))
    ELSE LET data == map[arg.key][1] IN
         IF ~has_expired(data, t1)
         THEN Done(map, Value_BulkString(data.value))
         ELSE Done(IF has_expired(map[arg.key][1], t2)
                   THEN [map EXCEPT ![arg.key] = None]
                   ELSE map,
                   Value_BulkString(BulkString_null))

\* a Get that answers null for an expired entry and leaves it in the map
GetHandler_handle_no_removal(map, arg, t1, t2) ==
    IF map[arg.key] = None
    THEN Done(map, Value_BulkString(BulkString_null))
    ELSE LET data == map[arg.key][1] IN
         IF ~has_expired(data, t1)
         THEN Done(map, Value_BulkString(data.value))
         ELSE Done(map, Value_BulkString(BulkString_null))

\* a Get that clears the deadline of an expired entry and keeps the entry
GetHandler_handle_clears_deadline(map, arg, t1, t2) ==
    IF map[arg.key] = None
    THEN Done(map, Value_BulkString(BulkString_null))
    ELSE LET data == map[arg.key][1] IN
         IF ~has_expired(data, t1)
         THEN Done(map, Value_BulkString(data.value))
         ELSE Done([map EXCEPT ![arg.key] = Some([data EXCEPT !.deadline = None])],
                   Value_BulkString(BulkString_null))

\* t1 is the clock reading of the check made on the cloned data, t2 the
\* reading of the check made under the write lock (t1 <= t2)
GetHandler_handle(map, arg, t1, t2) ==
    IF map[arg.key] = None
    THEN Done(map, Value_BulkString(BulkString_null))
    ELSE LET data == map[arg.key][1] IN
         IF ~has_expired(data, t1)
         THEN Done(map, Value_BulkString(data.value))
         ELSE Done(IF has_expired(map[arg.key][1], t2)
                   THEN [map EXCEPT ![arg.key] = None]
                   ELSE map,
                   Value_BulkString(BulkString_null))

CommandHandler_handle(map, cfg, cmd, t1, t2) ==
    CASE cmd[1] = "Ping" -> Done(map, PingHandler_handle(cmd[2]))
      [] cmd[1] = "Echo" -> Done(map, EchoHandler_handle(cmd[2]))
      [] cmd[1] = "Info" -> InfoHandler_handle(map, cfg, cmd[2])
      [] cmd[1] = "Set" -> SetHandler_handle(map, cmd[2], t1)
      [] cmd[1] = "Get" -> GetHandler_handle(map, cmd[2], t1, t2)

\* a handle_request that unwraps the result of tx.send(resp)
handle_request_unwrap_send(map, cfg, cmd, rxAlive, t1, t2) ==
    LET r == CommandHandler_handle(map, cfg, cmd, t1, t2)
    IN [panic |-> (r.panic \/ ~rxAlive), map |-> r.map, reply |-> r.reply,
        delivered |-> (~r.panic /\ rxAlive)]

\* Redis::handle_request: run the command, then tx.send(resp), whose result
\* is ignored.  delivered tells whether a receiver took the reply.
handle_request(map, cfg, cmd, rxAlive, t1, t2) ==
    LET r == CommandHandler_handle(map, cfg, cmd, t1, t2)
    IN [panic |-> r.panic, map |-> r.map, reply |-> r.reply,
        delivered |-> (~r.panic /\ rxAlive)]

(***************************************************************************)
(* The oneshot reply channel of a connection's request: not created, open  *)
(* (nothing sent, both ends alive), holding the reply the engine sent, or  *)
(* closed because the sender was dropped without sending.                  *)
(***************************************************************************)
NoChannel == <<"none">>
Open == <<"open">>
SenderDropped == <<"dropped">>
\* a channel that hands over the result of the request executed before
Replied_with_earlier_result(id, reply) ==
    <<"reply", [id |-> id, reply |-> IF lastOp # None THEN lastOp[1].reply ELSE reply]>>

Replied(id, reply) == <<"reply", [id |-> id, reply |-> reply]>>

(***************************************************************************)
(* The state after construction: an empty map (Redis::new), no connection. *)
(***************************************************************************)
Conns == 1..MaxConns
Threads == 1..MaxThreads

Min(a, b) == IF a <= b THEN a ELSE b

\* CommandHandler::new with an empty map and any configuration
\* no library call made yet
Idle == [stage |-> "idle", lib |-> "", value |-> None, wire |-> <<>>, result |-> None]

InitEngine ==
    /\ store = [k \in Keys |-> None]
    /\ now = 0
    /\ config \in Configs
    /\ engine = "running"
    /\ lastOp = None
    /\ lastSet = [k \in Keys |-> None]
    /\ queue = <<>>
    /\ pc = [c \in Conns |-> "unaccepted"]
    /\ held = [c \in Conns |-> None]
    /\ chan = [c \in Conns |-> NoChannel]
    /\ nreq = [c \in Conns |-> 0]
    /\ written = [c \in Conns |-> <<>>]
    /\ enq = 0
    /\ done = [c \in Conns |-> 0]
    /\ exec = [pre |-> [k \in Keys |-> None], post |-> [k \in Keys |-> None],
               before |-> [k \in Keys |-> None]]
    /\ log = <<>>
    /\ reads = [c \in Conns |-> [n |-> 0, first |-> None, frames |-> 0]]
    /\ call = Idle
    /\ hs = [pc |-> "idle", io |-> "", listening_port |-> 0, sent |-> <<>>,
             replies |-> <<>>, result |-> None]
    /\ rw = [map |-> [k \in Keys |-> None], readers |-> 0, writer |-> FALSE,
             th |-> [t \in Threads |->
                        [pc |-> "idle", cmd |-> None, at |-> 0, data |-> None,
                         reply |-> None, saw |-> FALSE, refreshed |-> FALSE,
                         outcome |-> ""]]]

\* Redis::new: the configuration is derived from the replica address alone
Init ==
    /\ InitEngine
    /\ config.master_repl_id_and_offset = None

\* the library parts are exercised in a process that is no replica
InitLib == Init /\ ~config.is_replica

\* the clock readings a handler that starts at time t can take for a second
\* check: only a Get that found its entry expired reads the clock again
Readings(cmd, map, t) ==
    IF /\ cmd[1] = "Get"
       /\ map[cmd[2].key] # None
       /\ has_expired(map[cmd[2].key][1], t)
    THEN t..Min(t + 1, Min(MaxTime, MaxInstant))
    ELSE {t}

\* history of the Sets: what a Set on key recorded, given the map it found
SetRecord(map, arg, t) ==
    [value |-> arg.value,
     due |-> IF arg.expiry = None THEN None ELSE Some(t + arg.expiry[1]),
     prev |-> IF map[arg.key] = None \/ map[arg.key][1].deadline = None THEN "none"
              ELSE IF t > map[arg.key][1].deadline[1] THEN "elapsed"
              ELSE "pending",
     expiredGet |-> FALSE]

NoteHistory(cmd, t1) ==
    CASE cmd[1] = "Set" ->
            [lastSet EXCEPT ![cmd[2].key] = Some(SetRecord(store, cmd[2], t1))]
      [] cmd[1] = "Get" /\ lastSet[cmd[2].key] # None ->
            LET rec == lastSet[cmd[2].key][1] IN
            IF rec.due # None /\ t1 > rec.due[1]
            THEN [lastSet EXCEPT ![cmd[2].key] = Some([rec EXCEPT !.expiredGet = TRUE])]
            ELSE lastSet
      [] OTHER -> lastSet

\* The engine runs handle_request on one request.  The handler reads the
\* clock at now and, for a second check, at t2.
Execute(cmd, rxAlive, t2) ==
    LET r == handle_request(store, config, cmd, rxAlive, now, t2) IN
    /\ store' = r.map
    /\ now' = t2
    /\ engine' = IF r.panic THEN "panicked" ELSE engine
    /\ lastOp' = Some([cmd |-> cmd, t1 |-> now, rx |-> rxAlive,
                       reply |-> r.reply, delivered |-> r.delivered])
    /\ lastSet' = NoteHistory(cmd, now)
    /\ UNCHANGED config
    /\ UNCHANGED libVars

\* A caller hands a request to Redis::handle_request; the receiver of its
\* reply channel may have been dropped already.
HandleRequest ==
    \E cmd \in Commands, rxAlive \in BOOLEAN : \E t2 \in Readings(cmd, store, now) :
        /\ engine = "running"
        /\ Execute(cmd, rxAlive, t2)
        /\ UNCHANGED serverVars

\* a clock whose advance sweeps the entries that have expired by then
Tick_with_sweep ==
    /\ now < MaxTime
    /\ now < MaxInstant
    /\ now' = now + 1
    /\ store' = [k \in Keys |-> IF store[k] # None /\ has_expired(store[k][1], now + 1)
                                 THEN None ELSE store[k]]
    /\ UNCHANGED <<config, engine, lastOp, lastSet>>
    /\ UNCHANGED serverVars
    /\ UNCHANGED libVars

\* The wall clock advances.
Tick ==
    /\ now < MaxTime
    /\ now < MaxInstant
    /\ now' = now + 1
    /\ UNCHANGED <<store, config, engine, lastOp, lastSet>>
    /\ UNCHANGED serverVars
    /\ UNCHANGED libVars

NextEngine == HandleRequest \/ Tick

SpecEngine == InitEngine /\ [][NextEngine]_vars

(***************************************************************************)
(* The server: Redis::start and the handle_connection tasks it spawns.     *)
(***************************************************************************)
\* the commands the peers of the server send
ServerCommands ==
    {Cmd_Set(KeyK, BulkString_new(<<97>>), None), Cmd_Get(KeyK), Cmd_Info("Default")}

Request(c, n, cmd) == [id |-> <<c, n>>, cmd |-> cmd]

\* a request in the channel, with the position seq at which it entered
Queue_entry(req, seq) == [id |-> req.id, cmd |-> req.cmd, seq |-> seq]

\* the sum of f over the connections 1..n
RECURSIVE Total(_, _)
Total(f, n) == IF n = 0 THEN 0 ELSE f[n] + Total(f, n - 1)

\* the oneshot senders of the requests in q are dropped with them
DropSenders(q) ==
    [c \in Conns |->
        IF \E i \in 1..Len(q) : q[i].id[1] = c THEN SenderDropped ELSE chan[c]]

\* start, first branch of select!: listener.accept() yields a stream and the
\* task of the connection is spawned.  Connections are numbered in the order
\* in which they are accepted.
Accept(c) ==
    /\ engine = "running"
    /\ pc[c] = "unaccepted"
    /\ \A d \in 1..(c - 1) : pc[d] # "unaccepted"
    /\ pc' = [pc EXCEPT ![c] = "reading"]
    /\ UNCHANGED <<queue, held, chan, nreq, written, enq, done, exec, log, reads>>
    /\ UNCHANGED engineVars
    /\ UNCHANGED libVars

\* a start that ends on the accept error and leaves the request channel with
\* what it holds
AcceptFail_keeping_channel ==
    /\ engine = "running"
    /\ engine' = "failed"
    /\ UNCHANGED <<queue, chan, pc, held, nreq, written, enq, done, exec, log, reads>>
    /\ UNCHANGED <<store, now, config, lastOp, lastSet>>
    /\ UNCHANGED libVars

\* start, first branch of select!: listener.accept() yields an error and
\* `conn?` ends start; the receiver of the request channel is dropped with
\* everything queued.
AcceptFail ==
    /\ engine = "running"
    /\ engine' = "failed"
    /\ queue' = <<>>
    /\ chan' = DropSenders(queue)
    /\ UNCHANGED <<pc, held, nreq, written, enq, done, exec, log, reads>>
    /\ UNCHANGED <<store, now, config, lastOp, lastSet>>
    /\ UNCHANGED libVars

\* a receiver that takes the request sent last
Dequeue_newest(q) == q[Len(q)]

\* the request the engine takes from the channel
Dequeue(q) == Head(q)

\* start, second branch of select!: reqs_rx.recv() yields the next request
\* and handle_request runs it to completion.  A panicking handler unwinds
\* start: the request, the channel and everything queued are dropped.
Recv ==
    /\ engine = "running"
    /\ queue # <<>>
    /\ LET req == Dequeue(queue)
           c == req.id[1]
           rest == SelectSeq(queue, LAMBDA r : r # req)
           rxAlive == chan[c] = Open
       IN \E t2 \in Readings(req.cmd, store, now) :
            LET r == handle_request(store, config, req.cmd, rxAlive, now, t2) IN
            /\ Execute(req.cmd, rxAlive, t2)
            /\ log' = Append(log, req.seq)
            /\ done' = [done EXCEPT ![c] = @ + 1]
            /\ exec' = [pre |-> store, post |-> r.map, before |-> exec.post]
            /\ IF r.panic
               THEN /\ queue' = <<>>
                    /\ chan' = DropSenders(queue)
               ELSE /\ queue' = rest
                    /\ chan' = IF r.delivered
                               THEN [chan EXCEPT ![c] = Replied(req.id, r.reply)]
                               ELSE chan
    /\ UNCHANGED <<pc, held, nreq, written, enq, reads>>
    /\ UNCHANGED libVars

\* handle_connection: stream.read yields bytes that parse into a command;
\* the request and its reply channel are created.
ReadRequest(c) ==
    \E cmd \in ServerCommands :
        /\ pc[c] = "reading"
        /\ Total(nreq, MaxConns) < MaxReqs
        /\ nreq' = [nreq EXCEPT ![c] = @ + 1]
        /\ held' = [held EXCEPT ![c] = Some(Request(c, nreq[c] + 1, cmd))]
        /\ chan' = [chan EXCEPT ![c] = Open]
        /\ pc' = [pc EXCEPT ![c] = "sending"]
        /\ UNCHANGED <<queue, written, enq, done, exec, log, reads>>
        /\ UNCHANGED engineVars
    /\ UNCHANGED libVars

\* handle_connection: stream.read yields 0 bytes; the task returns Ok.
ReadEof(c) ==
    /\ pc[c] = "reading"
    /\ pc' = [pc EXCEPT ![c] = "ended"]
    /\ UNCHANGED <<queue, held, chan, nreq, written, enq, done, exec, log, reads>>
    /\ UNCHANGED engineVars
    /\ UNCHANGED libVars

\* a connection error that is propagated into start and ends it, as an
\* accept error does
ReadError_ends_start(c) ==
    /\ pc[c] = "reading"
    /\ pc' = [pc EXCEPT ![c] = "failed"]
    /\ engine' = "failed"
    /\ queue' = <<>>
    /\ chan' = DropSenders(queue)
    /\ UNCHANGED <<held, nreq, written, enq, done, exec, log, reads>>
    /\ UNCHANGED <<store, now, config, lastOp, lastSet>>
    /\ UNCHANGED libVars

\* a task that answers undecodable bytes with an error reply before it
\* returns the error
ReadError_writes_reply(c) ==
    /\ pc[c] = "reading"
    /\ pc' = [pc EXCEPT ![c] = "failed"]
    /\ written' = [written EXCEPT ![c] = Append(@, <<c, 0>>)]
    /\ UNCHANGED <<queue, held, chan, nreq, enq, done, exec, log, reads>>
    /\ UNCHANGED engineVars
    /\ UNCHANGED libVars

\* handle_connection: stream.read fails, or the bytes read fail to decode or
\* to parse; the task returns the error.
ReadError(c) ==
    /\ pc[c] = "reading"
    /\ pc' = [pc EXCEPT ![c] = "failed"]
    /\ UNCHANGED <<queue, held, chan, nreq, written, enq, done, exec, log, reads>>
    /\ UNCHANGED engineVars
    /\ UNCHANGED libVars

\* a task that goes back to stream.read once its request is sent, without
\* waiting for the reply
Send_then_read(c) ==
    /\ pc[c] = "sending"
    /\ engine = "running"
    /\ Len(queue) < ChannelCapacity
    /\ queue' = Append(queue, Queue_entry(held[c][1], enq + 1))
    /\ enq' = enq + 1
    /\ held' = [held EXCEPT ![c] = None]
    /\ pc' = [pc EXCEPT ![c] = "reading"]
    /\ UNCHANGED <<chan, nreq, written, done, exec, log, reads>>
    /\ UNCHANGED engineVars
    /\ UNCHANGED libVars

\* handle_connection: reqs_tx.send(req).await.  It waits while the channel
\* is full; when the receiver is gone it returns an error, which is ignored,
\* and the request is dropped with its oneshot sender.
Send(c) ==
    /\ pc[c] = "sending"
    /\ IF engine = "running"
       THEN /\ Len(queue) < ChannelCapacity
            /\ queue' = Append(queue, Queue_entry(held[c][1], enq + 1))
            /\ enq' = enq + 1
            /\ chan' = chan
       ELSE /\ chan' = [chan EXCEPT ![c] = SenderDropped]
            /\ UNCHANGED <<queue, enq>>
    /\ held' = [held EXCEPT ![c] = None]
    /\ pc' = [pc EXCEPT ![c] = "awaiting"]
    /\ UNCHANGED <<nreq, written, done, exec, log, reads>>
    /\ UNCHANGED engineVars
    /\ UNCHANGED libVars

\* handle_connection: resp_rx.await yields the reply.
Await(c) ==
    /\ pc[c] = "awaiting"
    /\ chan[c][1] = "reply"
    /\ pc' = [pc EXCEPT ![c] = "writing"]
    /\ UNCHANGED <<queue, held, chan, nreq, written, enq, done, exec, log, reads>>
    /\ UNCHANGED engineVars
    /\ UNCHANGED libVars

\* handle_connection: resp_rx.await yields RecvError, the sender having been
\* dropped, and unwrap() panics the task.
AwaitPanic(c) ==
    /\ pc[c] = "awaiting"
    /\ chan[c] = SenderDropped
    /\ pc' = [pc EXCEPT ![c] = "panicked"]
    /\ UNCHANGED <<queue, held, chan, nreq, written, enq, done, exec, log, reads>>
    /\ UNCHANGED engineVars
    /\ UNCHANGED libVars

\* handle_connection: the reply is encoded and written to the stream; the
\* loop goes back to stream.read.
Write(c) ==
    /\ pc[c] = "writing"
    /\ written' = [written EXCEPT ![c] = Append(@, chan[c][2].id)]
    /\ chan' = [chan EXCEPT ![c] = NoChannel]
    /\ pc' = [pc EXCEPT ![c] = "reading"]
    /\ UNCHANGED <<queue, held, nreq, enq, done, exec, log, reads>>
    /\ UNCHANGED engineVars
    /\ UNCHANGED libVars

\* handle_connection: stream.write fails; the task returns the error.
WriteError(c) ==
    /\ pc[c] = "writing"
    /\ chan' = [chan EXCEPT ![c] = NoChannel]
    /\ pc' = [pc EXCEPT ![c] = "failed"]
    /\ UNCHANGED <<queue, held, nreq, written, enq, done, exec, log, reads>>
    /\ UNCHANGED engineVars
    /\ UNCHANGED libVars

Next ==
    \/ \E c \in Conns : Accept(c)
    \/ AcceptFail
    \/ Recv
    \/ \E c \in Conns : ReadRequest(c)
    \/ \E c \in Conns : ReadEof(c)
    \/ \E c \in Conns : ReadError(c)
    \/ \E c \in Conns : Send(c)
    \/ \E c \in Conns : Await(c)
    \/ \E c \in Conns : AwaitPanic(c)
    \/ \E c \in Conns : Write(c)
    \/ \E c \in Conns : WriteError(c)

Spec == Init /\ [][Next]_vars

\* The scheduling of the runtime: select! polls the request channel whenever
\* start is polled, and a task whose await is ready is resumed.
Fairness ==
    /\ WF_vars(Recv)
    /\ \A c \in Conns : WF_vars(Send(c))
    /\ \A c \in Conns : WF_vars(Await(c))
    /\ \A c \in Conns : WF_vars(AwaitPanic(c))
    /\ \A c \in Conns : WF_vars(Write(c) \/ WriteError(c))

SpecFair == Spec /\ Fairness

(***************************************************************************)
(* Peers that pipeline: one stream.read hands handle_connection several    *)
(* complete frames at once.                                                *)
(***************************************************************************)
\* the frames a peer writes back to back, each with the command it spells
PipelinedFrames ==
    {[cmd |-> Cmd_Set(KeyK, BulkString_new(<<97>>), None),
      value |-> Value_Array(<<Value_BulkString(BulkString_new(<<83, 69, 84>>)),
                              Value_BulkString(KeyK),
                              Value_BulkString(BulkString_new(<<97>>))>>)],
     [cmd |-> Cmd_Get(KeyK),
      value |-> Value_Array(<<Value_BulkString(BulkString_new(<<71, 69, 84>>)),
                              Value_BulkString(KeyK)>>)],
     [cmd |-> Cmd_Ping(None),
      value |-> Value_Array(<<Value_BulkString(BulkString_new(<<80, 73, 78, 71>>))>>)]}

\* the bytes of the frames, one after the other
RECURSIVE Frames_bytes(_)
Frames_bytes(frames) ==
    IF frames = <<>> THEN <<>>
    ELSE Value_encode(Head(frames).value) \o Frames_bytes(Tail(frames))

\* a decode that goes on to the frame after the first when the bytes hold one
Request_decode_second_frame(buf) ==
    LET parse(v) == IF is_ok(v) THEN Command_try_from(v[2]) ELSE Err(<<"Decode", v[2]>>)
        after(first) ==
            IF is_ok(first) /\ first[2][2] < Len(buf)
            THEN parse(Value_decode(SubSeq(buf, first[2][2] + 1, Len(buf))))
            ELSE parse(Value_decode(buf))
    IN  after(Value_decode_with_len(buf))

\* Request::decode, with Command::parse: one value is decoded from the bytes
\* read and the command is made of it
Request_decode(buf) ==
    LET parse(v) == IF is_ok(v) THEN Command_try_from(v[2]) ELSE Err(<<"Decode", v[2]>>)
    IN  parse(Value_decode(buf))

\* handle_connection: stream.read yields the bytes of one or more complete
\* frames; Request::decode makes one request of them.
ReadFrames(c) ==
    \E n \in 1..MaxFrames : \E frames \in [1..n -> PipelinedFrames] :
        LET req(decoded) ==
                /\ is_ok(decoded)
                /\ held' = [held EXCEPT ![c] = Some(Request(c, nreq[c] + 1, decoded[2]))]
        IN
        /\ pc[c] = "reading"
        /\ Total(nreq, MaxConns) < MaxReqs
        /\ req(Request_decode(Frames_bytes(frames)))
        /\ nreq' = [nreq EXCEPT ![c] = @ + 1]
        /\ reads' = [reads EXCEPT ![c] = [n |-> @.n + 1, first |-> Some(frames[1].cmd),
                                          frames |-> n]]
        /\ chan' = [chan EXCEPT ![c] = Open]
        /\ pc' = [pc EXCEPT ![c] = "sending"]
        /\ UNCHANGED <<queue, written, enq, done, exec, log>>
        /\ UNCHANGED engineVars
        /\ UNCHANGED libVars

NextPipelined ==
    \/ \E c \in 1..MaxPipelined : Accept(c)
    \/ AcceptFail
    \/ Recv
    \/ \E c \in 1..MaxPipelined : ReadFrames(c)
    \/ \E c \in 1..MaxPipelined : ReadEof(c)
    \/ \E c \in 1..MaxPipelined : ReadError(c)
    \/ \E c \in 1..MaxPipelined : Send(c)
    \/ \E c \in 1..MaxPipelined : Await(c)
    \/ \E c \in 1..MaxPipelined : AwaitPanic(c)
    \/ \E c \in 1..MaxPipelined : Write(c)
    \/ \E c \in 1..MaxPipelined : WriteError(c)

SpecPipelined == Init /\ [][NextPipelined]_vars

(***************************************************************************)
(* Properties of the executor, checked under SpecEngine.                   *)
(***************************************************************************)
\* the request executed last is a Get of key k
LastIsGet(k) == lastOp # None /\ lastOp[1].cmd = Cmd_Get(k)

\* C1: after Set(k, v) without expiry, a later Get(k) with no other Set on k
\* in between returns BulkString v.
C1_SetThenGet ==
    \A k \in Keys :
        (LastIsGet(k) /\ lastSet[k] # None /\ lastSet[k][1].due = None)
            => lastOp[1].reply = Value_BulkString(lastSet[k][1].value)

C1_Witness ==
    /\ LastIsGet(KeyK)
    /\ lastSet[KeyK] # None
    /\ lastSet[KeyK][1].due = None
    /\ lastSet[KeyK][1].value = BulkString_new(<<98>>)
    /\ lastOp[1].reply = Value_BulkString(BulkString_new(<<98>>))
    /\ lastOp[1].t1 = MaxTime

\* C2: after Set(k, v, PX e) at time t with no later Set on k, a Get(k) before
\* t+e returns v; a Get(k) after t+e returns the null BulkString, and once
\* that Get has run the store holds no entry for k.
C2_ExpiryThenGet ==
    \A k \in Keys :
        (lastSet[k] # None /\ lastSet[k][1].due # None) =>
            LET rec == lastSet[k][1]
                due == rec.due[1]
            IN /\ (LastIsGet(k) /\ lastOp[1].t1 < due)
                      => lastOp[1].reply = Value_BulkString(rec.value)
               /\ (LastIsGet(k) /\ lastOp[1].t1 > due)
                      => /\ lastOp[1].reply = Value_BulkString(BulkString_null)
                         /\ store[k] = None
               /\ rec.expiredGet => store[k] = None

C2_Witness ==
    /\ LastIsGet(KeyK)
    /\ lastSet[KeyK] # None
    /\ lastSet[KeyK][1].due = Some(1)
    /\ lastSet[KeyK][1].value = BulkString_new(<<97>>)
    /\ lastSet[KeyK][1].expiredGet
    /\ lastOp[1].t1 = 2
    /\ lastOp[1].reply = Value_BulkString(BulkString_null)
    /\ store[KeyK] = None

\* C3: Set discards the prior time-to-live: after Set(k, v2) without expiry,
\* whatever deadline the entry it overwrote had, the entry of k holds v2 with
\* no deadline until the next Set on k, and every Get(k) returns v2.
C3_SetDiscardsTtl ==
    \A k \in Keys :
        (lastSet[k] # None /\ lastSet[k][1].due = None) =>
            /\ store[k] = Some([value |-> lastSet[k][1].value, deadline |-> None])
            /\ LastIsGet(k) => lastOp[1].reply = Value_BulkString(lastSet[k][1].value)

C3_Witness ==
    /\ lastSet[KeyK] # None
    /\ lastSet[KeyK][1].due = None
    /\ lastSet[KeyK][1].prev = "elapsed"
    /\ lastSet[KeyK][1].value = BulkString_new(<<98>>)
    /\ LastIsGet(KeyK)
    /\ lastOp[1].reply = Value_BulkString(BulkString_new(<<98>>))

\* C8: executing a command that passed parsing never fails: the engine
\* produces a reply Value for it and keeps running.
C8_ExecutionNeverFails ==
    lastOp # None => (engine = "running" /\ lastOp[1].reply[1] # "Panic")

\* C10: when the receiver of a request's reply channel is gone, the reply is
\* discarded without error, the effect of the command on the store stays
\* applied, and the engine goes on.
C10_ReceiverGone ==
    (lastOp # None /\ ~lastOp[1].rx /\ lastOp[1].reply[1] # "Panic") =>
        /\ engine = "running"
        /\ ~lastOp[1].delivered
        /\ lastOp[1].cmd[1] = "Set" =>
              LET arg == lastOp[1].cmd[2] IN
              /\ store[arg.key] # None
              /\ store[arg.key][1].value = arg.value
              /\ (arg.expiry = None => store[arg.key][1].deadline = None)

C10_Witness ==
    /\ lastOp # None
    /\ ~lastOp[1].rx
    /\ lastOp[1].cmd = Cmd_Set(KeyK, BulkString_new(<<98>>), None)
    /\ lastOp[1].reply = Value_SimpleString(Ascii.OK)
    /\ ~lastOp[1].delivered
    /\ store[KeyK] = Some([value |-> BulkString_new(<<98>>), deadline |-> None])
    /\ engine = "running"

(***************************************************************************)
(* Properties of the server, checked under Spec and SpecFair.              *)
(***************************************************************************)
Queued(id) == \E i \in 1..Len(queue) : queue[i].id = id
Executed(id) == done[id[1]] >= id[2]
Written(id) == \E i \in 1..Len(written[id[1]]) : written[id[1]][i] = id
RequestIds == {<<c, n>> : c \in Conns, n \in 1..MaxReqs}

\* C4: requests are executed one at a time in the order they entered the
\* queue, across connections (the n-th execution is that of the n-th request
\* that entered), and each execution starts from the store the execution
\* before it left.
C4_FifoExecution ==
    /\ Len(log) <= enq
    /\ \A i \in 1..Len(log) : log[i] = i
    /\ exec.pre = exec.before
    /\ store = exec.post

C4_Witness ==
    /\ Len(log) = 2
    /\ \E c \in Conns : \E d \in Conns \ {c} : done[c] = 1 /\ done[d] = 1
    /\ exec.pre[KeyK] # None
    /\ lastOp[1].cmd = Cmd_Get(KeyK)
    /\ lastOp[1].reply = Value_BulkString(BulkString_new(<<97>>))

\* the requests of connection c that are held, queued or executed and whose
\* reply is not written yet
InFlight(c) ==
    (IF held[c] # None THEN 1 ELSE 0)
    + Cardinality({i \in 1..Len(queue) : queue[i].id[1] = c})
    + (IF chan[c][1] = "reply" THEN 1 ELSE 0)

\* C5: a connection never has two requests in flight, and it reads its next
\* frame only after the reply to the previous request has been written.
C5_OneInFlight ==
    \A c \in Conns :
        /\ InFlight(c) <= 1
        /\ pc[c] = "reading" => (InFlight(c) = 0 /\ Len(written[c]) = nreq[c])

C5_Witness ==
    \E c \in Conns :
        /\ pc[c] = "reading"
        /\ nreq[c] = 2
        /\ Len(written[c]) = 2
        /\ \E d \in Conns : d # c /\ InFlight(d) = 1

\* C6: the queue never holds more than its capacity and no request is
\* dropped: every request a connection task decoded is still held by the
\* task, queued, or was executed, and none more than once.
C6_NoRequestDropped ==
    /\ Len(queue) <= ChannelCapacity
    /\ \A c \in Conns :
          done[c] + Cardinality({i \in 1..Len(queue) : queue[i].id[1] = c})
                  + (IF held[c] # None THEN 1 ELSE 0) = nreq[c]

\* C7: every request placed on the queue is eventually executed, and its
\* reply is eventually written by the connection task that sent it, unless
\* the write fails.
C7_EventuallyAnswered ==
    \A id \in RequestIds :
        Queued(id) ~> (Executed(id) /\ (Written(id) \/ pc[id[1]] = "failed"))

\* a connection task ends: peer closed, I/O error, decode or parse error
ConnEnds(c) ==
    /\ pc[c] \in {"reading", "writing"}
    /\ pc'[c] \in {"ended", "failed"}

\* C9: when a connection task ends, the engine, the queue, the store and
\* every other connection are left as they are.
C9_ConnEndIsolated ==
    [][\A c \in Conns :
          ConnEnds(c) =>
              /\ engine' = engine
              /\ queue' = queue
              /\ store' = store
              /\ \A d \in Conns \ {c} :
                    /\ pc'[d] = pc[d]
                    /\ chan'[d] = chan[d]
                    /\ held'[d] = held[d]
                    /\ written'[d] = written[d]]_vars

C9_Witness ==
    \E c \in Conns : \E d \in Conns \ {c} :
        /\ pc[c] = "failed"
        /\ engine = "running"
        /\ pc[d] = "reading"
        /\ Len(written[d]) = 1
        /\ nreq[c] = 0

\* C11: when the bytes read on a connection fail to decode or to parse, the
\* connection task ends with the error: it writes no reply, no request is
\* created or enqueued for it, and the store is unchanged.
C11_ParseErrorEndsConnection ==
    [][\A c \in Conns :
          (pc[c] = "reading" /\ pc'[c] = "failed") =>
              /\ written' = written
              /\ queue' = queue
              /\ enq' = enq
              /\ nreq' = nreq
              /\ held' = held
              /\ chan' = chan
              /\ store' = store]_vars

C11_Witness ==
    \E c \in Conns :
        /\ pc[c] = "failed"
        /\ Len(written[c]) = 1
        /\ nreq[c] = 1
        /\ done[c] = 1
        /\ chan[c] = NoChannel
        /\ store[KeyK] # None
        /\ engine = "running"

(***************************************************************************)
(* The replica's handshake with its master.                                *)
(***************************************************************************)
\* what a read of the master's stream can give: the bytes of a reply in
\* whole, the first bytes of one, no byte of a closed stream, an error
MasterReplies ==
    {[kind |-> "reply", wire |-> Value_encode(v)] :
        v \in {Value_SimpleString(Ascii.PONG), Value_SimpleString(Ascii.OK),
               Value_SimpleString(Ascii.ping), Value_SimpleString(<<>>),
               Value_BulkString(BulkString_new(Ascii.PONG)),
               Value_BulkString(BulkString_new(Ascii.OK)), Value_BulkString(BulkString_null),
               Value_SimpleError(Ascii.OK), Value_Integer(1),
               Value_Array(<<Value_BulkString(BulkString_new(Ascii.PONG))>>)}}
    \cup {[kind |-> "reply", wire |-> <<43, 80, 79>>],
          [kind |-> "closed", wire |-> <<>>], [kind |-> "error", wire |-> <<>>]}

\* the arguments connect_to_master gives the clients, step by step
HandshakeArg(step, listening_port) ==
    CASE step = "ping" -> [msg |-> None]
      [] step = "listening_port" -> [config |-> <<"ListeningPort", listening_port>>]
      [] step = "capa" -> [config |-> <<"Capabilities", Ascii.psync2>>]

\* Replication::init with a master address and a listening port
Replication_init ==
    \E listening_port \in {1, 6380, 65535} :
        /\ hs.pc = "idle"
        /\ hs' = [hs EXCEPT !.pc = "connect", !.listening_port = listening_port]
        /\ UNCHANGED <<engineVars, serverVars, call, rw>>

\* TcpStream::connect succeeds, or fails and ends connect_to_master
TcpStream_connect ==
    /\ hs.pc = "connect"
    /\ hs.result = None
    /\ \E connected \in BOOLEAN :
        hs' = IF connected THEN [hs EXCEPT !.pc = "ping", !.io = "write"]
              ELSE [hs EXCEPT !.result = Some(Err(<<"TokioIo">>))]
    /\ UNCHANGED <<engineVars, serverVars, call, rw>>

\* the write of send_request_and_wait_reply: the request of the step is
\* encoded and written whole, or the write fails and the error goes up
\* through the client to the caller of connect_to_master
Stream_write ==
    /\ hs.pc \in {"ping", "listening_port", "capa"}
    /\ hs.io = "write"
    /\ hs.result = None
    /\ \E written_ok \in BOOLEAN :
        LET arg == HandshakeArg(hs.pc, hs.listening_port)
            request == IF hs.pc = "ping" THEN Ping_command_value(arg)
                       ELSE ReplConf_command_value(arg)
        IN  hs' = IF written_ok
                  THEN [hs EXCEPT !.io = "read", !.sent = Append(@, Value_encode(request))]
                  ELSE [hs EXCEPT !.result = Some(Err(<<"Client", "Session", "TokioIo">>))]
    /\ UNCHANGED <<engineVars, serverVars, call, rw>>

\* the read of send_request_and_wait_reply and the client's look at the
\* response: the expected one lets connect_to_master go on to its next step
\* or return, any other returns the client's error
Stream_read ==
    /\ hs.pc \in {"ping", "listening_port", "capa"}
    /\ hs.io = "read"
    /\ hs.result = None
    /\ \E read \in MasterReplies :
        LET returned(checked) ==
                IF ~is_ok(checked)
                THEN [hs EXCEPT !.replies = Append(@, read),
                                !.result = Some(Err(<<"Client">> \o checked[2]))]
                ELSE IF hs.pc = "capa"
                THEN [hs EXCEPT !.replies = Append(@, read), !.pc = "complete",
                                !.io = "", !.result = Some(Ok(<<>>))]
                ELSE [hs EXCEPT !.replies = Append(@, read), !.io = "write",
                                !.pc = IF hs.pc = "ping" THEN "listening_port" ELSE "capa"]
            client(arg, response) ==
                IF hs.pc = "ping" THEN PingClient_ping(arg, response)
                ELSE ReplConfClient_replconf(arg, response)
        IN  hs' = returned(client(HandshakeArg(hs.pc, hs.listening_port),
                                  Session_send_request_and_wait_reply(read)))
    /\ UNCHANGED <<engineVars, serverVars, call, rw>>

InitReplica == Init /\ config.is_replica
NextReplica == Replication_init \/ TcpStream_connect \/ Stream_write \/ Stream_read
SpecReplica == InitReplica /\ [][NextReplica]_vars

\* the reply connect_to_master expects at each of its three steps
ExpectedReply(i) ==
    [kind |-> "reply",
     wire |-> IF i = 1 THEN <<43, 80, 79, 78, 71, 13, 10>> ELSE <<43, 79, 75, 13, 10>>]
StepOf(i) == <<"ping", "listening_port", "capa">>[i]
Failed == hs.result # None /\ ~is_ok(hs.result[1])

\* C12: a master that replies PONG, OK, OK brings the handshake to complete;
\* a reply that is not the expected one fails the handshake at the step it
\* was given at, and no request of a later step is written
C12_HandshakeOutcome ==
    /\ (Len(hs.replies) = 3 /\ \A i \in 1..3 : hs.replies[i] = ExpectedReply(i))
           => (hs.pc = "complete" /\ hs.result = Some(Ok(<<>>)))
    /\ \A i \in 1..Len(hs.replies) :
           hs.replies[i] # ExpectedReply(i)
               => /\ Failed
                  /\ hs.pc = StepOf(i)
                  /\ Len(hs.replies) = i
                  /\ Len(hs.sent) = i

\* a master that answers the second request with the reply fit for the first
C12_Witness ==
    /\ Len(hs.replies) = 2
    /\ hs.replies[1] = ExpectedReply(1)
    /\ hs.replies[2] = ExpectedReply(1)
    /\ hs.pc = "listening_port"
    /\ Failed

\* what a master makes of the i-th request written to it
ReceivedByMaster(i) == Value_decode(hs.sent[i])

\* C13: the replica writes at most three requests, which a master reads as
\* PING with no message, REPLCONF listening-port with the replica's port and
\* REPLCONF capa psync2, in this order, each one after the expected reply to
\* the one before; a complete handshake has written all three
C13_HandshakeRequests ==
    /\ Len(hs.sent) <= 3
    /\ hs.pc = "complete" => Len(hs.sent) = 3
    /\ \A i \in 1..Len(hs.sent) :
        /\ i > 1 => Len(hs.replies) >= i - 1 /\ hs.replies[i - 1] = ExpectedReply(i - 1)
        /\ is_ok(ReceivedByMaster(i))
        /\ i = 1 => Command_try_from(ReceivedByMaster(i)[2]) = Ok(<<"Ping", [msg |-> None]>>)
        /\ i > 1 =>
            LET parts == ReceivedByMaster(i)[2][2][1] IN
            /\ Command_get_command_str_from_iter(parts) = Ok(<<82, 69, 80, 76, 67, 79, 78, 70>>)
            /\ ReplConfArg_parse_arg(Tail(parts)) =
                   Ok([config |-> IF i = 2 THEN <<"ListeningPort", hs.listening_port>>
                                  ELSE <<"Capabilities", Ascii.psync2>>])

C13_Witness ==
    /\ hs.pc = "complete"
    /\ Len(hs.sent) = 3
    /\ hs.listening_port = 6380

\* C14: a handshake that fails at its Ping step, by a reply that is not
\* +PONG or by a failure of the stream, returns the error that reads
\* "Unable to connect to master"
C14_CannotConnectMaster ==
    (hs.pc = "ping" /\ Failed) => hs.result = Some(Err(<<"CannotConnectMaster">>))

(***************************************************************************)
(* The handlers of Get and Set called by several threads on one shared     *)
(* map.  RwLock::read is granted while no writer holds the lock, and       *)
(* RwLock::write while nobody holds it; a guard is released where the      *)
(* handler drops it or returns.                                            *)
(***************************************************************************)
\* the commands the threads call the handlers with
LockCommands ==
    {Cmd_Get(KeyK)} \cup {Cmd_Set(KeyK, BulkString_new(<<97>>), e) : e \in {None, Some(0)}}

\* a thread enters GetHandler::handle, or SetHandler::handle, which reads the
\* clock for the deadline before it asks for the lock; the threads are
\* numbered in the order they enter
Handle(t) ==
    \E cmd \in LockCommands :
        /\ rw.th[t].pc = "idle"
        /\ \A u \in 1..(t - 1) : rw.th[u].pc # "idle"
        /\ rw' = [rw EXCEPT !.th[t].cmd = Some(cmd), !.th[t].at = now,
                            !.th[t].pc = IF cmd[1] = "Get" THEN "read" ELSE "write"]
        /\ UNCHANGED <<engineVars, serverVars, call, hs>>

\* self.map.read() of GetHandler::handle
RwLock_read(t) ==
    /\ rw.th[t].pc = "read"
    /\ ~rw.writer
    /\ rw' = [rw EXCEPT !.readers = @ + 1, !.th[t].pc = "reading"]
    /\ UNCHANGED <<engineVars, serverVars, call, hs>>

\* read_map.get(&arg.key): a missing key returns null, an entry is cloned;
\* the read guard is dropped either way
Get_clone(t) ==
    /\ rw.th[t].pc = "reading"
    /\ LET data == rw.map[rw.th[t].cmd[1][2].key] IN
       rw' = IF data = None
             THEN [rw EXCEPT !.readers = @ - 1, !.th[t].pc = "done",
                             !.th[t].reply = Some(Value_BulkString(BulkString_null))]
             ELSE [rw EXCEPT !.readers = @ - 1, !.th[t].pc = "cloned",
                             !.th[t].data = data]
    /\ UNCHANGED <<engineVars, serverVars, call, hs>>

\* data.has_expired() on the clone, after the read guard is dropped
Get_has_expired(t) ==
    /\ rw.th[t].pc = "cloned"
    /\ rw' = IF ~has_expired(rw.th[t].data[1], now)
             THEN [rw EXCEPT !.th[t].pc = "done", !.th[t].data = None,
                             !.th[t].reply = Some(Value_BulkString(rw.th[t].data[1].value))]
             ELSE [rw EXCEPT !.th[t].pc = "write", !.th[t].saw = TRUE]
    /\ UNCHANGED <<engineVars, serverVars, call, hs>>

\* a lock that grants the write guard while readers hold theirs
RwLock_write_among_readers(t) ==
    /\ rw.th[t].pc = "write"
    /\ ~rw.writer
    /\ rw' = [rw EXCEPT !.writer = TRUE, !.th[t].pc = "writing"]
    /\ UNCHANGED <<engineVars, serverVars, call, hs>>

\* self.map.write() of GetHandler::handle and of SetHandler::handle
RwLock_write(t) ==
    /\ rw.th[t].pc = "write"
    /\ ~rw.writer
    /\ rw.readers = 0
    /\ rw' = [rw EXCEPT !.writer = TRUE, !.th[t].pc = "writing"]
    /\ UNCHANGED <<engineVars, serverVars, call, hs>>

\* a Get that removes the entry it finds under the write guard unexamined
Get_entry_without_check(t) ==
    /\ rw.th[t].pc = "writing"
    /\ rw.th[t].cmd[1][1] = "Get"
    /\ LET key == rw.th[t].cmd[1][2].key
           e == rw.map[key]
       IN  rw' = [rw EXCEPT !.map[key] = None,
                            !.writer = FALSE,
                            !.th[t].pc = "done", !.th[t].data = None,
                            !.th[t].outcome = IF e = None THEN "vanished" ELSE "removed",
                            !.th[t].reply = Some(Value_BulkString(BulkString_null))]
    /\ UNCHANGED <<engineVars, serverVars, call, hs>>

\* a Get that answers with the value of the entry it finds refreshed
Get_entry_replies_refreshed(t) ==
    /\ rw.th[t].pc = "writing"
    /\ rw.th[t].cmd[1][1] = "Get"
    /\ LET key == rw.th[t].cmd[1][2].key
           e == rw.map[key]
           expired == e # None /\ has_expired(e[1], now)
       IN  rw' = [rw EXCEPT !.map[key] = IF expired THEN None ELSE @,
                            !.writer = FALSE,
                            !.th[t].pc = "done", !.th[t].data = None,
                            !.th[t].outcome = IF e = None THEN "vanished"
                                              ELSE IF expired THEN "removed" ELSE "kept",
                            !.th[t].reply = IF e # None /\ ~expired
                                            THEN Some(Value_BulkString(e[1].value))
                                            ELSE Some(Value_BulkString(BulkString_null))]
    /\ UNCHANGED <<engineVars, serverVars, call, hs>>

\* write_map.entry(key) of GetHandler::handle: an entry found and still
\* expired is removed; the handler returns null and the guard is released
Get_entry(t) ==
    /\ rw.th[t].pc = "writing"
    /\ rw.th[t].cmd[1][1] = "Get"
    /\ LET key == rw.th[t].cmd[1][2].key
           e == rw.map[key]
           expired == e # None /\ has_expired(e[1], now)
       IN  rw' = [rw EXCEPT !.map[key] = IF expired THEN None ELSE @,
                            !.writer = FALSE,
                            !.th[t].pc = "done", !.th[t].data = None,
                            !.th[t].outcome = IF e = None THEN "vanished"
                                              ELSE IF expired THEN "removed" ELSE "kept",
                            !.th[t].reply = Some(Value_BulkString(BulkString_null))]
    /\ UNCHANGED <<engineVars, serverVars, call, hs>>

\* map.entry(key) of SetHandler::handle: the data, with the deadline taken
\* from the clock reading made on entry, replaces what the key holds; the
\* Gets that dropped their read guard and wait for the write guard are
\* marked as having had their entry refreshed
Set_entry(t) ==
    /\ rw.th[t].pc = "writing"
    /\ rw.th[t].cmd[1][1] = "Set"
    /\ LET r == SetHandler_handle(rw.map, rw.th[t].cmd[1][2], rw.th[t].at) IN
       rw' = [rw EXCEPT !.map = r.map,
                        !.writer = FALSE,
                        !.th = [u \in Threads |->
                                  IF u = t
                                  THEN [rw.th[t] EXCEPT !.pc = "done", !.reply = Some(r.reply)]
                                  ELSE IF /\ rw.th[u].pc \in {"cloned", "write"}
                                          /\ rw.th[u].cmd[1][1] = "Get"
                                          /\ rw.th[u].cmd[1][2].key = rw.th[t].cmd[1][2].key
                                  THEN [rw.th[u] EXCEPT !.refreshed = TRUE]
                                  ELSE rw.th[u]]]
    /\ UNCHANGED <<engineVars, serverVars, call, hs>>

NextLock ==
    \/ \E t \in Threads :
          \/ Handle(t) \/ RwLock_read(t) \/ Get_clone(t) \/ Get_has_expired(t)
          \/ RwLock_write(t) \/ Get_entry(t) \/ Set_entry(t)
    \/ Tick
SpecLock == InitLib /\ [][NextLock]_vars

\* the threads that have finished a Get
GetDone(t) == rw.th[t].pc = "done" /\ rw.th[t].cmd[1][1] = "Get"

\* C15 as stated: no Get removes an entry written by a Set that ran between
\* the Get's release of the read guard and its taking of the write guard
C15_RefreshedNeverRemoved ==
    \A t \in Threads : rw.th[t].refreshed => rw.th[t].outcome # "removed"

\* C15: under the write guard a Get removes the entry of its key when the
\* entry is there and expired by the clock read at that moment, and leaves
\* the map as it is otherwise: an entry refreshed by a Set since the Get
\* dropped its read guard is removed only if it has expired in its turn
C15_RemovesOnlyStillExpired ==
    [][\A t \in Threads :
          (rw.th[t].pc = "writing" /\ rw.th[t].cmd[1][1] = "Get" /\ rw'.th[t].pc = "done")
              => LET key == rw.th[t].cmd[1][2].key IN
                 IF rw.map[key] # None /\ has_expired(rw.map[key][1], now)
                 THEN rw'.map = [rw.map EXCEPT ![key] = None]
                 ELSE rw'.map = rw.map]_vars

\* a Get found its entry refreshed and alive, and left it in the map
C15_Witness ==
    \E t \in Threads :
        /\ GetDone(t)
        /\ rw.th[t].refreshed
        /\ rw.th[t].outcome = "kept"
        /\ rw.map[KeyK] # None
        /\ ~has_expired(rw.map[KeyK][1], now)

\* C16: a Get that judged the entry it cloned under the read guard expired
\* returns the null bulk string, whatever it found under the write guard
C16_ExpiredGetsNull ==
    \A t \in Threads :
        (GetDone(t) /\ rw.th[t].saw)
            => rw.th[t].reply = Some(Value_BulkString(BulkString_null))

\* one Get removed the expired entry and another, which had cloned it too,
\* found it gone
C16_Witness ==
    /\ \E t \in Threads : GetDone(t) /\ rw.th[t].saw /\ rw.th[t].outcome = "removed"
    /\ \E t \in Threads : GetDone(t) /\ rw.th[t].saw /\ rw.th[t].outcome = "vanished"

\* C17: a thread that holds the write guard is the only one that holds a
\* guard, and the lock counts the read guards held
Holds(t) == IF rw.th[t].pc = "reading" THEN "read"
            ELSE IF rw.th[t].pc = "writing" THEN "write" ELSE "none"

CodecEncode ==
    \E v \in CodecValues :
        /\ call.stage = "idle"
        /\ call' = [stage |-> "encoded", lib |-> "redis::resp", value |-> Some(v),
                     wire |-> Value_encode(v), result |-> None]
        /\ UNCHANGED <<engineVars, serverVars, hs, rw>>

\* Value::decode of redis/resp.rs on the bytes written
CodecDecode ==
    /\ call.stage = "encoded"
    /\ call.lib = "redis::resp"
    /\ call' = [call EXCEPT !.stage = "decoded", !.result = Some(Value_decode(call.wire))]
    /\ UNCHANGED <<engineVars, serverVars, hs, rw>>

\* Encoder::encode of resp.rs on a value
RespEncode ==
    \E v \in CodecValues :
        /\ call.stage = "idle"
        /\ call' = [stage |-> "encoded", lib |-> "resp", value |-> Some(resp_Value(v)),
                     wire |-> resp_Value_serialize(resp_Value(v)), result |-> None]
        /\ UNCHANGED <<engineVars, serverVars, hs, rw>>

\* Decoder::decode of resp.rs on the bytes written
RespDecode ==
    /\ call.stage = "encoded"
    /\ call.lib = "resp"
    /\ call' = [call EXCEPT !.stage = "decoded",
                              !.result = Some(resp_Decoder_decode(call.wire))]
    /\ UNCHANGED <<engineVars, serverVars, hs, rw>>

\* the values given to Command::try_from: each command name, one in capitals
\* and an unknown one, followed by up to MaxArgs tokens, which are bulk
\* strings (a key, the option name "Px", a number) or a value that is none;
\* Info with the section name "Replication"; the two ReplConf commands of the
\* handshake; values that are no command
ParseInputs ==
    LET ArgTokens ==
            {Value_BulkString(BulkString_new(b)) : b \in {<<107>>, <<80, 120>>, <<49, 48>>}}
            \cup {Value_Integer(1)}
    IN  {Value_Array(<<Value_BulkString(BulkString_new(name))>> \o args) :
            name \in {Ascii.ping, Ascii.echo, Ascii.set, Ascii.get, Ascii.info,
                      <<71, 69, 84>>, <<120>>},
            args \in UNION {[1..n -> ArgTokens] : n \in 0..MaxArgs}}
        \cup {Value_Array(<<Value_BulkString(BulkString_new(Ascii.info)),
                            Value_BulkString(BulkString_new([Ascii.replication EXCEPT ![1] = 82]))>>),
              Value_Array(<<Value_BulkString(BulkString_new(Ascii.replconf)),
                            Value_BulkString(BulkString_new(Ascii.listening_port)),
                            Value_BulkString(BulkString_new(<<49, 48>>))>>),
              Value_Array(<<Value_BulkString(BulkString_new(Ascii.replconf)),
                            Value_BulkString(BulkString_new(Ascii.capa)),
                            Value_BulkString(BulkString_new(Ascii.psync2))>>),
              Value_Array(<<>>), Array_null, Value_Integer(1),
              Value_Array(<<Value_Integer(1)>>),
              Value_Array(<<Value_BulkString(BulkString_null)>>)}

\* the tokens given to ReplConfArg::parse_arg: up to three, of the two
\* configuration names with a capital, the numbers 10 and 65536, a text and
\* two values that are no bulk strings
ReplConfInputs ==
    LET Tokens == {Value_BulkString(BulkString_new(b)) :
                       b \in {[Ascii.listening_port EXCEPT ![1] = 76],
                              [Ascii.capa EXCEPT ![1] = 67], <<49, 48>>,
                              <<54, 53, 53, 51, 54>>, Ascii.psync2}}
                  \cup {Value_Integer(1), Value_SimpleString(Ascii.OK)}
    IN  UNION {[1..n -> Tokens] : n \in 0..3}

\* Command::try_from on a value
Parse ==
    \E v \in ParseInputs :
        /\ call.stage = "idle"
        /\ call' = [stage |-> "parsed", lib |-> "cmd", value |-> Some(v),
                     wire |-> <<>>, result |-> Some(Command_try_from(v))]
        /\ UNCHANGED <<engineVars, serverVars, hs, rw>>

\* ReplConfArg::parse_arg on the tokens after the command name
ParseReplConf ==
    \E args \in ReplConfInputs :
        /\ call.stage = "idle"
        /\ call' = [stage |-> "parsed", lib |-> "cmd::replconf",
                     value |-> Some(Value_Array(args)), wire |-> <<>>,
                     result |-> Some(as_command("ReplConf", ReplConfArg_parse_arg(args)))]
        /\ UNCHANGED <<engineVars, serverVars, hs, rw>>

\* what a responder gives a client back: a value, expected by one of the
\* clients or by none, or the error of a session that got no answer
ClientResponses ==
    {Ok(v) : v \in {Value_SimpleString(Ascii.PONG), Value_SimpleString(Ascii.OK),
                    Value_SimpleString(<<104, 105>>),
                    Value_BulkString(BulkString_new(<<104, 105>>)),
                    Value_BulkString(BulkString_new(Ascii.PONG)),
                    Value_BulkString(BulkString_new(Ascii.OK)),
                    Value_Array(<<Value_BulkString(BulkString_new(Ascii.PONG)),
                                  Value_BulkString(BulkString_new(<<104, 105>>))>>),
                    Value_Array(<<Value_SimpleString(Ascii.PONG),
                                  Value_BulkString(BulkString_new(<<104, 105>>))>>),
                    Value_Array(<<Value_BulkString(BulkString_new(Ascii.PONG))>>),
                    Value_Array(<<Value_BulkString(BulkString_new(<<104, 105>>))>>),
                    Value_SimpleError(Ascii.OK), Value_Integer(1)}}
    \cup {Err(<<"NoResponse">>)}

\* PingClient::ping on a responder
Ping ==
    \E arg \in {[msg |-> None], [msg |-> Some(BulkString_new(<<104, 105>>))]},
       response \in ClientResponses :
        /\ call.stage = "idle"
        /\ call' = [stage |-> "replied", lib |-> "cmd::ping", arg |-> arg,
                     response |-> response, value |-> None, wire |-> <<>>,
                     result |-> Some(PingClient_ping(arg, response))]
        /\ UNCHANGED <<engineVars, serverVars, hs, rw>>

\* EchoClient::echo on a responder
Echo ==
    \E arg \in {[msg |-> BulkString_new(<<104, 105>>)], [msg |-> BulkString_new(Ascii.OK)],
                 [msg |-> BulkString_null]},
       response \in ClientResponses :
        /\ call.stage = "idle"
        /\ call' = [stage |-> "replied", lib |-> "cmd::echo", arg |-> arg,
                     response |-> response, value |-> None, wire |-> <<>>,
                     result |-> Some(EchoClient_echo(arg, response))]
        /\ UNCHANGED <<engineVars, serverVars, hs, rw>>

\* ReplConfClient::replconf on a responder
ReplConf ==
    \E arg \in {[config |-> <<"ListeningPort", 6380>>],
                 [config |-> <<"Capabilities", Ascii.psync2>>]},
       response \in ClientResponses :
        /\ call.stage = "idle"
        /\ call' = [stage |-> "replied", lib |-> "cmd::replconf", arg |-> arg,
                     response |-> response, value |-> None, wire |-> <<>>,
                     result |-> Some(ReplConfClient_replconf(arg, response))]
        /\ UNCHANGED <<engineVars, serverVars, hs, rw>>

\* Value::decode on the bytes of a bulk string as a peer may write them: a
\* length token that is a numeral or not, and data of a length of its own
DecodeBulkString ==
    \E len \in {<<48 + n>> : n \in 0..(MaxBulkLen + 1)}
                \cup {<<>>, <<120>>, <<49, 97>>},
       data \in UNION {[1..n -> {97}] : n \in 0..(MaxBulkLen + 1)} :
        /\ call.stage = "idle"
        /\ call' = [stage |-> "read", lib |-> "redis::resp", arg |-> [len |-> len, data |-> data],
                     value |-> None, wire |-> <<Token.Dollar>> \o len \o CRLF \o data \o CRLF,
                     result |-> Some(Value_decode(<<Token.Dollar>> \o len \o CRLF
                                                  \o data \o CRLF))]
        /\ UNCHANGED <<engineVars, serverVars, hs, rw>>

\* Value::decode_with_len on the bytes of a value with more bytes after
\* them: none, a letter, a line end, or a whole second frame
DecodeFrame ==
    \E v \in CodecValues, suffix \in {<<>>, <<97>>, CRLF, <<43, 79, 75, 13, 10>>} :
        /\ call.stage = "idle"
        /\ call' = [stage |-> "consumed", lib |-> "redis::resp", arg |-> [suffix |-> suffix],
                     value |-> Some(v), wire |-> Value_encode(v) \o suffix,
                     result |-> Some(Value_decode_with_len(Value_encode(v) \o suffix))]
        /\ UNCHANGED <<engineVars, serverVars, hs, rw>>

NextLib ==
    \/ CodecEncode \/ CodecDecode \/ RespEncode \/ RespDecode
    \/ Parse \/ ParseReplConf
    \/ Ping \/ Echo \/ ReplConf
    \/ DecodeBulkString \/ DecodeFrame
SpecLib == InitLib /\ [][NextLib]_vars

\* C18: for every well-formed value v, decode(encode(v)) = v.
C18_RoundTrip ==
    (call.stage = "decoded" /\ call.lib = "redis::resp")
        => call.result[1] = Ok(call.value[1])

\* which of the four null and empty values v is, if any
NullOrEmpty(v) ==
    CASE v[1] = "BulkString" /\ v[2] = BulkString_null -> "null bulk"
      [] v[1] = "BulkString" /\ v[2] = BulkString_new(<<>>) -> "empty bulk"
      [] v[1] = "BulkString" /\ v[2] = resp_BulkString_null -> "null bulk"
      [] v[1] = "BulkString" /\ v[2] = resp_BulkString_from(<<>>) -> "empty bulk"
      [] v[1] = "Array" /\ v[2] = None -> "null array"
      [] v[1] = "Array" /\ v[2] = Some(<<>>) -> "empty array"
      [] v[1] = "Array" /\ v[2] = resp_Array_null -> "null array"
      [] v[1] = "Array" /\ v[2] = resp_Array_from(<<>>) -> "empty array"
      [] OTHER -> "other"

\* the bytes the wire format has for each of the four
NullOrEmptyWire(kind) ==
    CASE kind = "null bulk" -> <<36, 45, 49, 13, 10>>
      [] kind = "empty bulk" -> <<36, 48, 13, 10, 13, 10>>
      [] kind = "null array" -> <<42, 45, 49, 13, 10>>
      [] kind = "empty array" -> <<42, 48, 13, 10>>

\* C19: every encoder writes the null bulk string with length -1, the empty
\* one with length 0, the null array with count -1 and the empty one with
\* count 0, and decoding the bytes gives back the value they came from.
C19_NullEmptyDistinct ==
    (call.stage \in {"encoded", "decoded"} /\ NullOrEmpty(call.value[1]) # "other") =>
        /\ call.wire = NullOrEmptyWire(NullOrEmpty(call.value[1]))
        /\ call.stage = "decoded" => call.result[1] = Ok(call.value[1])

\* the command name of a parsed input in lower case, and its argument tokens
ParsedName ==
    IF call.lib = "cmd::replconf" THEN Ascii.replconf
    ELSE to_lowercase(call.value[1][2][1][1][2].bytes[1])
ParsedArgs ==
    IF call.lib = "cmd::replconf" THEN call.value[1][2][1] ELSE Tail(call.value[1][2][1])

\* the declared count of required and of optional arguments of each command
Arity ==
    [n \in {Ascii.ping, Ascii.info} |-> <<0, 1>>]
    @@ [n \in {Ascii.echo, Ascii.get} |-> <<1, 0>>]
    @@ [n \in {Ascii.set} |-> <<2, 2>>]
    @@ [n \in {Ascii.replconf} |-> <<2, 0>>]

\* a command of a known name was given to the parser
ParsedCommand ==
    /\ call.stage = "parsed"
    /\ call.value[1][1] = "Array"
    /\ call.value[1][2] # None
    /\ call.lib = "cmd" =>
          /\ call.value[1][2][1] # <<>>
          /\ call.value[1][2][1][1][1] = "BulkString"
          /\ call.value[1][2][1][1][2].bytes # None
    /\ ParsedName \in DOMAIN Arity

\* too few or too many arguments for the command
WrongArity ==
    \/ Len(ParsedArgs) < Arity[ParsedName][1]
    \/ Len(ParsedArgs) > Arity[ParsedName][1] + Arity[ParsedName][2]

\* the tokens the parser reads as arguments are all bulk strings
ArgsAreBulk ==
    \A i \in 1..Len(ParsedArgs) :
        i <= Arity[ParsedName][1] + Arity[ParsedName][2] => ParsedArgs[i][1] = "BulkString"

\* the kind of error a parser call ended with, "" when it succeeded
ErrorKind == IF is_ok(call.result[1]) THEN "" ELSE call.result[1][2][1]

\* C20 as stated: for every command, parsing fails with WrongNumArgs when a
\* required argument is missing and when a token remains after the declared
\* required and optional arguments.
C20_ArityExact ==
    (ParsedCommand /\ WrongArity) => call.result[1] = Err(<<"WrongNumArgs">>)

\* C20, amended: for every command, parsing with a required argument missing
\* or a token remaining fails; it fails with WrongNumArgs when the tokens
\* read as arguments are bulk strings, and with InvalidArgument otherwise.
C20_ArityExactOnBulkArgs ==
    (ParsedCommand /\ WrongArity) =>
        ErrorKind = IF ArgsAreBulk THEN "WrongNumArgs" ELSE "InvalidArgument"

C20_Witness ==
    /\ ParsedCommand
    /\ ParsedName = Ascii.get
    /\ Len(ParsedArgs) = 2
    /\ ArgsAreBulk
    /\ call.result[1] = Err(<<"WrongNumArgs">>)

\* the text of the i-th argument token, a bulk string that is not null
ArgText(i) == ParsedArgs[i][2].bytes[1]

\* the text is a decimal numeral, and the number it writes
IsNumeral(t) == t # <<>> /\ \A i \in 1..Len(t) : t[i] \in 48..57
RECURSIVE NumeralValue(_)
NumeralValue(t) ==
    IF t = <<>> THEN 0 ELSE 10 * NumeralValue(SubSeq(t, 1, Len(t) - 1)) + (t[Len(t)] - 48)

\* the text is "px" in small letters, capitals or a mix
IsPx(t) == Len(t) = 2 /\ t[1] \in {80, 112} /\ t[2] \in {88, 120}

\* Set was given a key, a value and one or two tokens more, all bulk strings
SetWithClause ==
    /\ ParsedCommand
    /\ call.lib = "cmd"
    /\ ParsedName = Ascii.set
    /\ Len(ParsedArgs) \in 3..4
    /\ ArgsAreBulk

\* C21: Set takes an expiry only as the two tokens after key and value: a
\* third argument that is not "px" in any mix of capitals fails with
\* InvalidArgument, "px" followed by a numeral gives an expiry of that many
\* milliseconds, and "px" with no token after it fails with WrongNumArgs.
C21_SetExpiryClause ==
    SetWithClause =>
        IF ~IsPx(ArgText(3)) THEN ErrorKind = "InvalidArgument"
        ELSE IF Len(ParsedArgs) = 3 THEN ErrorKind = "WrongNumArgs"
        ELSE IF IsNumeral(ArgText(4))
             THEN call.result[1] = Ok(<<"Set", [key |-> ParsedArgs[1][2],
                                                value |-> ParsedArgs[2][2],
                                                expiry |-> Some(NumeralValue(ArgText(4)))]>>)
        ELSE ~is_ok(call.result[1])

C21_Witness ==
    /\ SetWithClause
    /\ ArgText(3) = <<80, 120>>
    /\ Len(ParsedArgs) = 4
    /\ is_ok(call.result[1])
    /\ call.result[1][2][2].expiry = Some(10)

\* the value parsed is an array that is not null and starts with a bulk
\* string that is not null, and the text of that bulk string
NamesSomething ==
    /\ call.value[1][1] = "Array"
    /\ call.value[1][2] # None
    /\ call.value[1][2][1] # <<>>
    /\ call.value[1][2][1][1][1] = "BulkString"
    /\ call.value[1][2][1][1][2].bytes # None
CommandText == call.value[1][2][1][1][2].bytes[1]

\* the text is the name, each letter small or capital
IsName(t, name) ==
    /\ Len(t) = Len(name)
    /\ \A i \in 1..Len(t) : t[i] = name[i] \/ t[i] = name[i] - 32

\* the commands Command::try_from has an arm for
ParsedCommands ==
    [Ping |-> Ascii.ping, Echo |-> Ascii.echo, Set |-> Ascii.set, Get |-> Ascii.get,
     Info |-> Ascii.info]

\* C22: parsing a command needs an array that is not null whose first element
\* is a bulk string naming a command in any mix of capitals: a value that is
\* no array, a null or empty array, a first element that is no bulk string
\* and an unknown name all fail with InvalidCommand, a known name never does,
\* and a command that parses is the one named.
C22_CommandName ==
    (call.stage = "parsed" /\ call.lib = "cmd") =>
        /\ (~NamesSomething
               \/ \A c \in DOMAIN ParsedCommands \cup {"ReplConf"} :
                      ~IsName(CommandText, IF c = "ReplConf" THEN Ascii.replconf
                                           ELSE ParsedCommands[c]))
              => call.result[1] = Err(<<"InvalidCommand">>)
        /\ \A c \in DOMAIN ParsedCommands :
              (NamesSomething /\ IsName(CommandText, ParsedCommands[c]))
                  => /\ ErrorKind # "InvalidCommand"
                     /\ is_ok(call.result[1]) => call.result[1][2][1] = c

C22_Witness ==
    /\ call.stage = "parsed"
    /\ call.lib = "cmd"
    /\ NamesSomething
    /\ CommandText = <<71, 69, 84>>
    /\ call.result[1] = Ok(<<"Get", [key |-> BulkString_new(<<107>>)]>>)

\* a command with an arm in the parser called was given, and the i-th token
\* after its name is the first that is no bulk string, at a position the
\* command has an argument for
FirstNotBulk(i) ==
    /\ ParsedCommand
    /\ call.lib = "cmd" => \E c \in DOMAIN ParsedCommands : IsName(CommandText, ParsedCommands[c])
    /\ i \in 1..Len(ParsedArgs)
    /\ i <= Arity[ParsedName][1] + Arity[ParsedName][2]
    /\ ParsedArgs[i][1] # "BulkString"
    /\ \A j \in 1..(i - 1) : ParsedArgs[j][1] = "BulkString"

\* C23: a token that is no bulk string, at a position where a command takes
\* an argument, makes parsing fail with InvalidArgument carrying that token.
C23_InvalidArgumentCarriesValue ==
    \A i \in 1..MaxArgs :
        FirstNotBulk(i) => call.result[1] = Err(<<"InvalidArgument", ParsedArgs[i]>>)

C23_Witness ==
    /\ FirstNotBulk(1)
    /\ Len(ParsedArgs) = 2
    /\ ParsedArgs[1] = Value_SimpleString(Ascii.OK)
    /\ ParsedArgs[2] = Value_Integer(1)
    /\ call.result[1] = Err(<<"InvalidArgument", Value_SimpleString(Ascii.OK)>>)

\* ReplConfArg::parse_arg was called on two bulk strings with text
ReplConfPair ==
    /\ call.stage = "parsed"
    /\ call.lib = "cmd::replconf"
    /\ Len(ParsedArgs) = 2
    /\ \A i \in 1..2 : ParsedArgs[i][1] = "BulkString" /\ ParsedArgs[i][2].bytes # None

\* C24: ReplConf parses exactly two arguments: the key "listening-port", in
\* any mix of capitals, with a numeral of at most 65535 gives ListeningPort
\* of that number, the key "capa" gives Capabilities of the text of the
\* value, and every other key, every other port value and every other count
\* of arguments fails.
C24_ReplConfArguments ==
    (call.stage = "parsed" /\ call.lib = "cmd::replconf") =>
        IF ReplConfPair /\ IsName(ArgText(1), Ascii.listening_port)
              /\ IsNumeral(ArgText(2)) /\ NumeralValue(ArgText(2)) <= 65535
        THEN call.result[1] =
                 Ok(<<"ReplConf", [config |-> <<"ListeningPort", NumeralValue(ArgText(2))>>]>>)
        ELSE IF ReplConfPair /\ IsName(ArgText(1), Ascii.capa)
        THEN call.result[1] = Ok(<<"ReplConf", [config |-> <<"Capabilities", ArgText(2)>>]>>)
        ELSE ~is_ok(call.result[1])

C24_Witness ==
    /\ ReplConfPair
    /\ ArgText(1) = [Ascii.listening_port EXCEPT ![1] = 76]
    /\ ArgText(2) = <<49, 48>>
    /\ call.result[1] = Ok(<<"ReplConf", [config |-> <<"ListeningPort", 10>>]>>)

\* the parser of the server was given a command named ReplConf, in any mix
\* of capitals, with a key and a value that ReplConfArg::parse_arg accepts
WellFormedReplConf ==
    /\ call.stage = "parsed"
    /\ call.lib = "cmd"
    /\ NamesSomething
    /\ IsName(CommandText, Ascii.replconf)
    /\ is_ok(ReplConfArg_parse_arg(ParsedArgs))

\* C25: a server that receives a well-formed ReplConf command parses it,
\* replies the simple string OK and leaves the store as it was.
C25_ReplConfAcknowledged ==
    WellFormedReplConf =>
        /\ is_ok(call.result[1])
        /\ CommandHandler_handle(store, config, call.result[1][2], now, now)
               = Done(store, Value_SimpleString(Ascii.OK))

C27_GetAbsentKey ==
    [][\A k \in Keys :
          (/\ store[k] = None
           /\ lastOp' # None
           /\ lastOp'[1].cmd = Cmd_Get(k)
           /\ (lastOp' # lastOp \/ store' # store))
              => /\ lastOp'[1].reply = <<"BulkString", [bytes |-> <<>>]>>
                 /\ store' = store]_vars

C27_Witness ==
    /\ lastOp # None
    /\ lastOp[1].cmd = Cmd_Get(KeyJ)
    /\ lastOp[1].reply = Value_BulkString(BulkString_null)
    /\ lastSet[KeyJ] = None
    /\ store[KeyJ] = None
    /\ store[KeyK] # None

\* the numerals of one and two digits
Numerals == {<<48 + a>> : a \in 0..9} \cup {<<48 + a, 48 + b>> : a \in 1..9, b \in 0..9}

\* C28: Info Replication is answered with the bulk string "role:slave" on a
\* replica; on a master with "role:master", followed, when the master has a
\* replication id and offset, by the lines "master_replid:<id>" and
\* "master_repl_offset:<offset>", each after a line feed.
C28_InfoReplication ==
    (lastOp # None /\ lastOp[1].cmd = Cmd_Info("Replication")) =>
        LET role == <<114, 111, 108, 101, 58>>
            slave == <<115, 108, 97, 118, 101>>
            master == <<109, 97, 115, 116, 101, 114>>
            replid == <<109, 97, 115, 116, 101, 114, 95, 114, 101, 112, 108, 105, 100, 58>>
            offset == <<109, 97, 115, 116, 101, 114, 95, 114, 101, 112, 108, 95,
                        111, 102, 102, 115, 101, 116, 58>>
            m == config.master_repl_id_and_offset
            text(t) == lastOp[1].reply = <<"BulkString", [bytes |-> <<t>>]>>
        IN  IF config.is_replica THEN text(role \o slave)
            ELSE IF m = None THEN text(role \o master)
            ELSE \E d \in Numerals :
                     /\ NumeralValue(d) = m[1][2]
                     /\ text(role \o master \o <<10>> \o replid \o m[1][1]
                                 \o <<10>> \o offset \o d)

C28_Witness ==
    /\ lastOp # None
    /\ lastOp[1].cmd = Cmd_Info("Replication")
    /\ ~config.is_replica
    /\ config.master_repl_id_and_offset = Some(<<(<<120, 121>>), 10>>)
    /\ lastOp[1].reply[1] = "BulkString"
    /\ Len(lastOp[1].reply[2].bytes[1]) = 50

\* Info was given to the parser of the server, and the argument it reads, if
\* there is one, is a bulk string
InfoParsed ==
    /\ ParsedCommand
    /\ call.lib = "cmd"
    /\ IsName(CommandText, Ascii.info)
    /\ ArgsAreBulk

ClientReplied(client) ==
    /\ call.stage = "replied"
    /\ call.lib = client
    /\ is_ok(call.response)
    /\ client = "cmd::echo" => call.arg.msg.bytes # None

\* the one value the client of the call takes for the answer to its request
ExpectedResponse ==
    LET bulk(t) == <<"BulkString", [bytes |-> <<t>>]>>
        pong == <<80, 79, 78, 71>>
    IN  CASE call.lib = "cmd::ping" /\ call.arg.msg = None -> <<"SimpleString", pong>>
          [] call.lib = "cmd::ping" /\ call.arg.msg # None ->
                 <<"Array", <<(<<bulk(pong), (<<"BulkString", call.arg.msg[1]>>)>>)>>>>
          [] call.lib = "cmd::echo" -> <<"BulkString", call.arg.msg>>
          [] call.lib = "cmd::replconf" -> <<"SimpleString", <<79, 75>>>>

\* C30: each client takes only the expected reply: PingClient::ping fails
\* with InvalidResponse unless the reply is the simple string PONG, when it
\* sent no message, or the array of the bulk strings PONG and the message;
\* EchoClient::echo unless it is the bulk string sent; ReplConfClient::replconf
\* unless it is the simple string OK.  The expected reply is handed back.
C30_ClientsCheckReply ==
    \A client \in {"cmd::ping", "cmd::echo", "cmd::replconf"} :
        ClientReplied(client) =>
            call.result[1] = IF call.response[2] = ExpectedResponse THEN call.response
                             ELSE Err(<<"InvalidResponse">>)

C30_Witness ==
    /\ ClientReplied("cmd::echo")
    /\ call.arg.msg = BulkString_new(<<104, 105>>)
    /\ call.response = Ok(Value_BulkString(BulkString_new(Ascii.OK)))
    /\ call.result[1] = Err(<<"InvalidResponse">>)

\* C31: decoding a bulk string whose declared length is not the number of
\* bytes found before the closing CR LF fails with LenMismatch, decoding one
\* whose length token is no number fails with ParseInt, and neither gives a
\* value; with the length declared right the bulk string is decoded.
C31_BulkStringLength ==
    (call.stage = "read" /\ call.lib = "redis::resp") =>
        IF ~IsNumeral(call.arg.len) THEN call.result[1] = Err("ParseInt")
        ELSE IF NumeralValue(call.arg.len) # Len(call.arg.data)
        THEN call.result[1] = Err("LenMismatch")
        ELSE call.result[1] = Ok(<<"BulkString", [bytes |-> <<call.arg.data>>]>>)

C31_Witness ==
    /\ call.stage = "read"
    /\ call.lib = "redis::resp"
    /\ call.wire = <<36, 49, 13, 10, 97, 97, 13, 10>>
    /\ call.result[1] = Err("LenMismatch")

\* C32: expiration is passive: an expired entry of key k stays in the store
\* as it is until a Get on k removes it or a Set on k overwrites it; neither
\* the passing of time nor any other command touches it.  An entry counts
\* as expired in a step when it is at the clock reading the step ends with.
C32_PassiveExpiration ==
    [][\A k \in Keys :
          (/\ store[k] # None
           /\ has_expired(store[k][1], now')
           /\ store'[k] # store[k])
              => /\ lastOp' # None
                 /\ \/ lastOp'[1].cmd = Cmd_Get(k) /\ store'[k] = None
                    \/ /\ lastOp'[1].cmd[1] = "Set"
                       /\ lastOp'[1].cmd[2].key = k
                       /\ store'[k] # None
                       /\ store'[k][1].value = lastOp'[1].cmd[2].value]_vars

\* an expired entry is still stored after a Ping ran later than its deadline
C32_Witness ==
    /\ store[KeyK] # None
    /\ store[KeyK][1].deadline = Some(0)
    /\ now = 2
    /\ lastOp # None
    /\ lastOp[1].cmd = Cmd_Ping(None)
    /\ lastOp[1].t1 = 2

\* C33 as stated: the entry a Set with expiry e stored has the deadline
\* now + e, and an entry has no deadline only when its Set carried no expiry.
C33_DeadlineIsNowPlusExpiry ==
    \A k \in Keys :
        (lastSet[k] # None /\ store[k] # None)
            => store[k][1].deadline = lastSet[k][1].due

\* C33, amended: the entry a Set with expiry e stored has the deadline
\* now + e when SystemTime can represent that instant, and no deadline when it
\* cannot; an entry has no deadline only when its Set carried no expiry or
\* now + e is not representable.
C33_DeadlineWhenRepresentable ==
    \A k \in Keys :
        (lastSet[k] # None /\ store[k] # None)
            => store[k][1].deadline =
                   IF lastSet[k][1].due # None /\ lastSet[k][1].due[1] <= MaxInstant
                   THEN lastSet[k][1].due ELSE None

C33_Witness ==
    /\ lastOp # None
    /\ lastOp[1].cmd = Cmd_Set(KeyK, BulkString_new(<<97>>), Some(1))
    /\ lastOp[1].t1 = 1
    /\ store[KeyK] = Some([value |-> BulkString_new(<<97>>), deadline |-> Some(2)])

\* C34: decoding takes exactly one frame and tells its length: the bytes of
\* a value v followed by any bytes s decode to v with a count of bytes
\* consumed that is the length of the bytes of v, header and elements of an
\* array all counted, and s is left alone.
C34_OneFrameConsumed ==
    call.stage = "consumed" =>
        call.result[1] = Ok(<<call.value[1], Len(call.wire) - Len(call.arg.suffix)>>)

(***************************************************************************)
(* Expiry over time and the frame of the commands, checked under           *)
(* SpecEngine.                                                             *)
(***************************************************************************)
\* the engine executes a command in this step
Executes(cmd) ==
    /\ lastOp' # lastOp \/ store' # store
    /\ lastOp' # None
    /\ lastOp'[1].cmd = cmd

\* C37: expiry is monotonic.  Once a Get(k) has found the entry of k expired,
\* with no Set on k since, every later Get(k) returns the null bulk string
\* and the store holds no entry for k.
C37_ExpiryMonotonic ==
    [][\A k \in Keys :
          (lastSet[k] # None /\ lastSet[k][1].expiredGet /\ Executes(Cmd_Get(k)))
              => /\ lastOp'[1].reply = Value_BulkString(BulkString_null)
                 /\ store[k] = None
                 /\ store'[k] = None]_vars

C37_Witness ==
    /\ lastSet[KeyK] # None
    /\ lastSet[KeyK][1].due = Some(0)
    /\ lastSet[KeyK][1].expiredGet
    /\ LastIsGet(KeyK)
    /\ lastOp[1].t1 = 2
    /\ lastOp[1].reply = Value_BulkString(BulkString_null)
    /\ store[KeyJ] # None

\* C38: an entry counts as expired only when the clock reads strictly later
\* than its deadline.  A Get(k) that finds an entry without deadline, or at an
\* instant not later than the deadline (the deadline itself included),
\* returns the stored value and leaves the store alone; a Get(k) that
\* removes the entry, or answers null for an entry whose value is not null,
\* read the clock after the deadline of the entry.
C38_ExpiredStrictlyAfterDeadline ==
    [][\A k \in Keys :
          (Executes(Cmd_Get(k)) /\ store[k] # None)
              => LET data == store[k][1] IN
                 /\ (data.deadline = None \/ now <= data.deadline[1])
                       => /\ lastOp'[1].reply = Value_BulkString(data.value)
                          /\ store' = store
                 /\ (\/ store'[k] # store[k]
                     \/ /\ lastOp'[1].reply = Value_BulkString(BulkString_null)
                        /\ data.value # BulkString_null)
                       => /\ data.deadline # None
                          /\ now > data.deadline[1]]_vars

C38_Witness ==
    /\ LastIsGet(KeyK)
    /\ lastOp[1].t1 = 1
    /\ store[KeyK] = Some([value |-> BulkString_new(<<97>>), deadline |-> Some(1)])
    /\ lastOp[1].reply = Value_BulkString(BulkString_new(<<97>>))

\* the store changes at most in the entry of key k
OnlyEntryChanges(k) == \A j \in Keys \ {k} : store'[j] = store[j]

\* the command the engine executes in this step
Executed_command == lastOp'[1].cmd

\* C39: the frame of the commands.  A Set on k changes at most the entry of
\* k; a Get(k) leaves the store as it is unless the entry of k has a deadline
\* the clock has passed, and then it removes that entry and touches no
\* other; Ping, Echo and Info leave the store as it is.  The store changes in
\* no step but the execution of a command, so no entry changes through a
\* command that does not name its key.
C39_FrameOfCommands ==
    [][(store' # store \/ lastOp' # lastOp) =>
          /\ lastOp' # None
          /\ Executed_command[1] = "Set" => OnlyEntryChanges(Executed_command[2].key)
          /\ Executed_command[1] = "Get" =>
                LET k == Executed_command[2].key IN
                IF store[k] # None /\ store[k][1].deadline # None
                                   /\ now > store[k][1].deadline[1]
                THEN store'[k] = None /\ OnlyEntryChanges(k)
                ELSE store' = store
          /\ Executed_command[1] \in {"Ping", "Echo", "Info"} => store' = store]_vars

C39_Witness ==
    /\ LastIsGet(KeyK)
    /\ lastOp[1].t1 = 2
    /\ lastSet[KeyK] # None
    /\ lastSet[KeyK][1].due = Some(1)
    /\ store[KeyK] = None
    /\ store[KeyJ] = Some([value |-> BulkString_new(<<97>>), deadline |-> None])

(***************************************************************************)
(* Reply routing, checked under Spec.                                      *)
(***************************************************************************)
\* the request connection c sent last
LastSent(c) == <<c, nreq[c]>>

\* C36: reply routing.  A reply reaches the oneshot channel of a connection
\* only while its task awaits, it answers the request that connection sent
\* last, and it is the result of executing the command of that request; the
\* reply a task writes is the one it received for the request it sent last;
\* a connection only ever wrote replies to requests of its own, and none
\* twice.
C36_ReplyRouting ==
    /\ [](\A c \in Conns :
            /\ chan[c][1] = "reply" => chan[c][2].id = LastSent(c)
            /\ \A i \in 1..Len(written[c]) :
                  /\ written[c][i][1] = c
                  /\ written[c][i][2] \in 1..nreq[c]
                  /\ \A j \in 1..(i - 1) : written[c][j][2] < written[c][i][2])
    /\ [][\A c \in Conns :
            /\ (chan'[c][1] = "reply" /\ chan'[c] # chan[c])
                 => /\ pc[c] = "awaiting"
                    /\ \E i \in 1..Len(queue) :
                          /\ queue[i].id = LastSent(c)
                          /\ lastOp'[1].cmd = queue[i].cmd
                          /\ chan'[c][2] = [id |-> LastSent(c), reply |-> lastOp'[1].reply]
            /\ written'[c] # written[c]
                 => /\ chan[c][1] = "reply"
                    /\ written'[c] = Append(written[c], LastSent(c))]_vars

C36_Witness ==
    /\ chan[1] = Replied(<<1, 1>>, Value_SimpleString(Ascii.OK))
    /\ chan[2] = Replied(<<2, 1>>, Value_BulkString(BulkString_new(<<97>>)))
    /\ written[3] = <<<<3, 1>>>>
    /\ pc[1] = "awaiting"
    /\ pc[2] = "writing"

\* C40: an accept error ends the engine loop.  Once start has returned the
\* error the channel holds no request and the engine stays ended; in no later
\* step is a request executed, does a request enter the channel or does a
\* reply reach a connection: a task writes only a reply it was given before,
\* and a request sent afterwards is dropped with its reply channel.
C40_AcceptErrorEndsEngine ==
    /\ [](engine = "failed" => queue = <<>>)
    /\ [][engine = "failed" =>
            /\ engine' = "failed"
            /\ done' = done /\ log' = log /\ enq' = enq
            /\ store' = store /\ lastOp' = lastOp
            /\ \A c \in Conns :
                  /\ chan'[c][1] = "reply" => chan'[c] = chan[c]
                  /\ (pc[c] = "sending" /\ pc'[c] # pc[c]) => chan'[c] = SenderDropped
                  /\ written'[c] # written[c] => chan[c][1] = "reply"]_vars

C40_Witness ==
    /\ engine = "failed"
    /\ pc[1] = "panicked"
    /\ nreq[1] = 2
    /\ written[1] = <<<<1, 1>>>>
    /\ pc[2] = "awaiting"
    /\ chan[2] = SenderDropped
    /\ done[2] = 0
    /\ store[KeyK] # None

(***************************************************************************)
(* Properties of pipelined reads, checked under SpecPipelined.             *)
(***************************************************************************)
\* the request was made of the last read of its connection, and of the first
\* frame of that read
OfFirstFrame(req) ==
    /\ req.id[2] = reads[req.id[1]].n
    /\ reads[req.id[1]].first = Some(req.cmd)

\* C35: each non-empty read of a connection makes at most one request and
\* gets at most one reply: the request made of a read that holds several
\* complete frames carries the command of the first frame, that command is
\* the one the engine executes for it, and a connection never has more
\* requests decoded, executed or answered than it took reads, so the frames
\* after the first are never executed.
C35_OneRequestPerRead ==
    /\ [](\A c \in Conns :
            /\ nreq[c] = reads[c].n
            /\ done[c] <= reads[c].n
            /\ Len(written[c]) <= done[c]
            /\ held[c] # None => OfFirstFrame(held[c][1])
            /\ \A i \in 1..Len(queue) : OfFirstFrame(queue[i]))
    /\ [][Len(log') > Len(log)
            => reads[Head(queue).id[1]].first = Some(lastOp'[1].cmd)]_vars

C35_Witness ==
    /\ reads[1] = [n |-> 1, first |-> Some(Cmd_Get(KeyK)), frames |-> MaxFrames]
    /\ written[1] = <<<<1, 1>>>>
    /\ done[1] = 1
    /\ pc[1] = "reading"
    /\ lastOp[1].cmd = Cmd_Get(KeyK)
    /\ lastOp[1].reply = Value_BulkString(BulkString_null)
    /\ store[KeyK] = None

====
